---- MODULE Spec2Model ----
(***************************************************************************)
(* Model of the snakes game engine (package snakes, state.go).             *)
(*                                                                         *)
(* The engine works on heap objects: a *State holds a slice of *Snake, and *)
(* every Snake holds a slice of Location backed by an array.  The model    *)
(* keeps that heap explicitly (mem), so that aliasing between an arena and *)
(* the arena Next returns is something the model can get wrong.            *)
(*                                                                         *)
(* Slot numbers are 0-based in the code; sequences here are 1-based, so    *)
(* slot k of the code is index k+1 of a sequence.  snakeNo values stored   *)
(* in maps and returned by IsCompleted are the code's 0-based numbers.     *)
(***************************************************************************)
EXTENDS Integers, Sequences, FiniteSets, TLC

VARIABLES
    mem,    \* the heap: [snakes, arrays, states], addresses are 1-based indexes
    cur,    \* the caller's gameState pointer (address in mem.states), 0 = nil
    call,   \* the last engine call: operation, arguments, input, outcome
    snap,   \* snap[a] = value of arena a when the call that built it returned
    other,  \* a second, independent game [mem, cur, call, apples], used
            \* where two arenas are compared
    srv,    \* the Server object: its fields
    run,    \* the goroutine executing Server.Run: its position and locals
    tasks,  \* the other goroutines (connection handlers, callers of Stop),
            \* each with its position, its locals and what it was sent
    bot     \* a WebSocketBot on the other end of a connection: its reader
            \* goroutine, its rounds and turns, and the callers of Move

vars == <<mem, cur, call, snap, other, srv, run, tasks, bot>>

----------------------------------------------------------------------------
(* Bounds of the model *)

MaxWidth == 4
MaxHeight == 2
MaxCount == 4
MaxInitLen == 2
MaxTicks == 2

----------------------------------------------------------------------------
(* Directions and locations *)

DirectionNorth == 0
DirectionEast == 1
DirectionSouth == 2
DirectionWest == 3

\* an int that is none of the four Direction constants
DirectionInvalid == 4

ValidDirections == {DirectionNorth, DirectionEast, DirectionSouth, DirectionWest}

Loc(x, y) == [X |-> x, Y |-> y]

\* Location{} : the zero value
ZeroLocation == Loc(0, 0)

\* IsInsideBounds with <= where the code has <
IsInsideBoundsOffByOne(l, width, height) ==
    l.X >= 0 /\ l.X <= width /\ l.Y >= 0 /\ l.Y <= height

\* Location.IsInsideBounds
IsInsideBounds(l, width, height) ==
    l.X >= 0 /\ l.X < width /\ l.Y >= 0 /\ l.Y < height

\* NextLocation; the default branch (panic) is NextLocationPanics
NextLocation(base, direction) ==
    CASE direction = DirectionNorth -> Loc(base.X, base.Y - 1)
      [] direction = DirectionEast  -> Loc(base.X + 1, base.Y)
      [] direction = DirectionSouth -> Loc(base.X, base.Y + 1)
      [] direction = DirectionWest  -> Loc(base.X - 1, base.Y)

NextLocationPanics(direction) == direction \notin ValidDirections

\* locationPair.Swap
Swap(l) == <<l[2], l[1]>>

\* Go map assignment m[k] = v
MapPut(f, k, v) == [x \in (DOMAIN f) \cup {k} |-> IF x = k THEN v ELSE f[x]]

EmptyMap == [x \in {} |-> 0]

----------------------------------------------------------------------------
(* The heap *)

EmptyMem == [snakes |-> <<>>, arrays |-> <<>>, states |-> <<>>]

RECURSIVE Zeros(_)
\* n elements of a freshly made array
Zeros(n) == IF n <= 0 THEN <<>> ELSE Append(Zeros(n - 1), ZeroLocation)

\* make([]Location, len, cap) followed by copy(dst, src): an array of cap
\* elements whose first ones are those of src
MakeCopy(src, cap) == src \o Zeros(cap - Len(src))

\* the elements of a slice [arr, len]
SliceElems(m, sl) == SubSeq(m.arrays[sl.arr], 1, sl.len)

\* cap(slice): slices of the engine always start at offset 0 of their array
SliceCap(m, sl) == Len(m.arrays[sl.arr])

\* The value of a snake object, pointers followed
SnakeVal(m, a) ==
    [Alive  |-> m.snakes[a].Alive,
     Length |-> m.snakes[a].Length,
     Pieces |-> SliceElems(m, m.snakes[a].Pieces)]

\* The value of an arena, pointers followed
StateVal(m, s) ==
    [Width  |-> m.states[s].Width,
     Height |-> m.states[s].Height,
     Apple  |-> m.states[s].Apple,
     Snakes |-> [i \in 1..Len(m.states[s].Snakes) |->
                    SnakeVal(m, m.states[s].Snakes[i])]]

\* Snake.IsAt / Snake.HasPieceAt
IsAt(m, a, l) ==
    \E k \in 1..m.snakes[a].Pieces.len : m.arrays[m.snakes[a].Pieces.arr][k] = l

----------------------------------------------------------------------------
(* GenerateAppleLocation *)

\* Miniature of hash/crc64: a polynomial checksum over the written words
HashMod == 1021
HashMul == 31

\* h.Write of one 8-byte big-endian word
HashWrite(h, word) == (h * HashMul + (word % HashMod) + 1) % HashMod

\* Miniature of math/rand: a Lehmer generator as in rngSource.Seed's seedrand
RngMod == 127
RngMul == 53
RngZeroSeed == 3

\* rand.NewSource(seed): the seed is reduced into the generator's range,
\* a zero seed is replaced by a fixed constant
RngSeed(seed) ==
    LET r == seed % RngMod IN IF r = 0 THEN RngZeroSeed ELSE r

RngStep(s) == (s * RngMul) % RngMod

RECURSIVE RngIntn(_, _)
\* rng.Intn(n) -> [v, s]: draws until the value is below the largest multiple
\* of n, then reduces it mod n (Int31n)
RngIntn(s, n) ==
    LET s1 == RngStep(s)
        max == RngMod - 1 - (RngMod % n)
    IN IF s1 > max THEN RngIntn(s1, n) ELSE [v |-> s1 % n, s |-> s1]

RECURSIVE ChecksumFrom(_, _, _, _)
\* lines 265-274: the heads of the alive snakes, zero for the others,
\* written to the hash in slot order
ChecksumFrom(m, snakes, i, h) ==
    IF i > Len(snakes) THEN h
    ELSE LET sn == m.snakes[snakes[i]]
             x == IF sn.Alive THEN m.arrays[sn.Pieces.arr][1].X ELSE 0
             y == IF sn.Alive THEN m.arrays[sn.Pieces.arr][1].Y ELSE 0
         IN ChecksumFrom(m, snakes, i + 1, HashWrite(HashWrite(h, x), y))

RECURSIVE ChecksumDeadTooFrom(_, _, _, _)
ChecksumDeadTooFrom(m, snakes, i, h) ==
    IF i > Len(snakes) THEN h
    ELSE LET sn == m.snakes[snakes[i]]
         IN ChecksumDeadTooFrom(m, snakes, i + 1,
                HashWrite(HashWrite(h, m.arrays[sn.Pieces.arr][1].X),
                          m.arrays[sn.Pieces.arr][1].Y))

\* the checksum without the test of snake.Alive: frozen heads are hashed too
ChecksumDeadToo(m, snakes) == ChecksumDeadTooFrom(m, snakes, 1, 0)

\* lines 263-274 and h.Sum64()
Checksum(m, snakes) == ChecksumFrom(m, snakes, 1, 0)

\* lines 281-287: is the candidate cell free of every snake of the list
CellOk(m, snakes, l) == \A i \in 1..Len(snakes) : ~IsAt(m, snakes[i], l)

RECURSIVE DrawApple(_, _, _, _, _, _)
\* lines 277-295: the for loop, drawing x then y until the cell is free.
\* The generator has fewer than RngMod states, so a loop that has drawn
\* RngMod candidates without success never ends.
DrawApple(m, width, height, snakes, s, fuel) ==
    IF fuel = 0 THEN [outcome |-> "hang", loc |-> ZeroLocation]
    ELSE LET dx == RngIntn(s, width)
             dy == RngIntn(dx.s, height)
             l  == Loc(dx.v, dy.v)
         IN IF CellOk(m, snakes, l)
            THEN [outcome |-> "returned", loc |-> l]
            ELSE DrawApple(m, width, height, snakes, dy.s, fuel - 1)

\* the cells rng.Intn(width), rng.Intn(height) can produce
Board(width, height) == {Loc(x, y) : x \in 0..(width - 1), y \in 0..(height - 1)}

\* GenerateAppleLocation -> [outcome, loc].  rng.Intn panics on n <= 0; the
\* loop has no exit but a free cell, so without one the call never returns.
GenerateAppleLocation(m, width, height, snakes) ==
    IF width <= 0 \/ height <= 0
    THEN [outcome |-> "panic", loc |-> ZeroLocation]
    ELSE IF \A l \in Board(width, height) : ~CellOk(m, snakes, l)
    THEN [outcome |-> "hang", loc |-> ZeroLocation]
    ELSE DrawApple(m, width, height, snakes, RngSeed(Checksum(m, snakes)), RngMod)

----------------------------------------------------------------------------
(* NewState *)

RECURSIVE NewSnakesNoInitialSpace(_, _, _)
\* the snakes placed at xSpaceBetween*i, without the initial half step
NewSnakesNoInitialSpace(m, cfg, i) ==
    IF i >= cfg.SnakeCount THEN m
    ELSE LET head == Loc((cfg.Width \div cfg.SnakeCount) * i, cfg.Height \div 2)
             sn == [Alive |-> TRUE, Length |-> cfg.InitialSnakeLength,
                    Pieces |-> [arr |-> Len(m.arrays) + 1, len |-> 1]]
         IN NewSnakesNoInitialSpace(
                [m EXCEPT !.arrays = Append(@, MakeCopy(<<head>>, cfg.InitialSnakeLength)),
                          !.snakes = Append(@, sn)], cfg, i + 1)

RECURSIVE NewSnakes(_, _, _)
\* lines 242-252: one snake per slot, alive, one piece, capacity Length
NewSnakes(m, cfg, i) ==
    IF i >= cfg.SnakeCount THEN m
    ELSE LET xSpaceBetween == cfg.Width \div cfg.SnakeCount
             xInitialSpace == xSpaceBetween \div 2
             yLine == cfg.Height \div 2
             head == Loc(xInitialSpace + xSpaceBetween * i, yLine)
             arr == MakeCopy(<<head>>, cfg.InitialSnakeLength)
             sn == [Alive |-> TRUE, Length |-> cfg.InitialSnakeLength,
                    Pieces |-> [arr |-> Len(m.arrays) + 1, len |-> 1]]
         IN NewSnakes([m EXCEPT !.arrays = Append(@, arr),
                                !.snakes = Append(@, sn)], cfg, i + 1)

\* lines 254-258: the apple is placed, the arena is returned
NewStateApple(m, cfg, snakes, g) ==
    IF g.outcome = "returned"
    THEN [mem |-> [m EXCEPT !.states = Append(@,
                      [Width |-> cfg.Width, Height |-> cfg.Height,
                       Snakes |-> snakes, Apple |-> g.loc])],
          outcome |-> "returned", state |-> Len(m.states) + 1]
    ELSE [mem |-> m, outcome |-> g.outcome, state |-> 0]

NewStateSnakes(m, cfg, snakes) ==
    NewStateApple(m, cfg, snakes,
                  GenerateAppleLocation(m, cfg.Width, cfg.Height, snakes))

\* NewState -> [mem, outcome, state]
NewState(m, cfg) ==
    IF cfg.SnakeCount < 2
    THEN [mem |-> m, outcome |-> "panic", state |-> 0]
    ELSE IF cfg.SnakeCount > cfg.Width
    THEN [mem |-> m, outcome |-> "panic", state |-> 0]
    ELSE IF cfg.InitialSnakeLength < 1
    \* make([]Location, 1, Length) with Length < 1: len larger than cap
    THEN [mem |-> m, outcome |-> "panic", state |-> 0]
    ELSE NewStateSnakes(NewSnakes(m, cfg, 0), cfg,
                        [i \in 1..cfg.SnakeCount |-> Len(m.snakes) + i])

----------------------------------------------------------------------------
(* clone and Next *)

Max(a, b) == IF a > b THEN a ELSE b

RECURSIVE MaxLengthFrom(_, _, _, _)
MaxLengthFrom(m, snakes, i, maxLength) ==
    IF i > Len(snakes) THEN maxLength
    ELSE MaxLengthFrom(m, snakes, i + 1, Max(maxLength, m.snakes[snakes[i]].Length))

\* clone with Pieces: snake.Pieces (the slice header copied, the array shared)
cloneSharingPieces(m, s) ==
    LET st == m.states[s]
        n == Len(st.Snakes)
        newSnake(i) == m.snakes[st.Snakes[i]]
        newSt == [st EXCEPT !.Snakes = [i \in 1..n |-> Len(m.snakes) + i]]
    IN [mem |-> [m EXCEPT !.snakes = @ \o [i \in 1..n |-> newSnake(i)],
                          !.states = Append(@, newSt)],
        newState |-> Len(m.states) + 1,
        maxLength |-> MaxLengthFrom(m, st.Snakes, 1, 0)]

\* State.clone -> [mem, newState, maxLength]: a new State, a new Snake per
\* slot, and for each a new array of the same capacity holding a copy of the
\* pieces
clone(m, s) ==
    LET st == m.states[s]
        n == Len(st.Snakes)
        old(i) == m.snakes[st.Snakes[i]]
        newArr(i) == MakeCopy(SliceElems(m, old(i).Pieces),
                              SliceCap(m, old(i).Pieces))
        newSnake(i) == [Alive |-> old(i).Alive, Length |-> old(i).Length,
                        Pieces |-> [arr |-> Len(m.arrays) + i,
                                    len |-> old(i).Pieces.len]]
        newSt == [Width |-> st.Width, Height |-> st.Height,
                  Snakes |-> [i \in 1..n |-> Len(m.snakes) + i],
                  Apple |-> st.Apple]
    IN [mem |-> [snakes |-> m.snakes \o [i \in 1..n |-> newSnake(i)],
                 arrays |-> m.arrays \o [i \in 1..n |-> newArr(i)],
                 states |-> Append(m.states, newSt)],
        newState |-> Len(m.states) + 1,
        maxLength |-> MaxLengthFrom(m, st.Snakes, 1, 0)]

\* snake.Pieces = append(snake.Pieces, Location{}): in place while the array
\* has room, otherwise into a new array of twice the capacity
AppendPiece(m, a) ==
    LET sl == m.snakes[a].Pieces
        cap == SliceCap(m, sl)
        grown == MakeCopy(SliceElems(m, sl), 2 * cap)
    IN IF sl.len < cap
       THEN [m EXCEPT !.arrays[sl.arr][sl.len + 1] = ZeroLocation,
                      !.snakes[a].Pieces.len = sl.len + 1]
       ELSE [m EXCEPT !.arrays = Append(@, grown),
                      !.snakes[a].Pieces = [arr |-> Len(m.arrays) + 1,
                                            len |-> sl.len + 1]]

RECURSIVE ShiftPieces(_, _, _, _, _)
\* lines 354-357: for i := len-1; i >= 1; i-- (k is i+1) -> [mem, tails]
ShiftPieces(m, a, k, tails, snakeNo) ==
    IF k < 2 THEN [mem |-> m, tails |-> tails]
    ELSE LET arr == m.snakes[a].Pieces.arr
             v == m.arrays[arr][k - 1]
         IN ShiftPieces([m EXCEPT !.arrays[arr][k] = v], a, k - 1,
                        MapPut(tails, v, snakeNo), snakeNo)

SetDead(m, a) == [m EXCEPT !.snakes[a].Alive = FALSE]

\* the chain without the test for two snakes going to the same location
ResolveHeadNoSameLocation(acc, m, a, snakeNo, locPair, nextLocation) ==
    LET st == m.states[acc.next]
        otherSnake(no) == st.Snakes[no + 1]
    IN IF ~IsInsideBounds(nextLocation, st.Width, st.Height)
       THEN [acc EXCEPT !.mem = SetDead(m, a)]
       ELSE IF Swap(locPair) \in DOMAIN acc.headLocations
       THEN [acc EXCEPT !.mem =
                SetDead(SetDead(m, a), otherSnake(acc.headLocations[Swap(locPair)]))]
       ELSE [acc EXCEPT !.mem = m,
                        !.headLocations = MapPut(@, locPair, snakeNo),
                        !.nextHeadLocations = MapPut(@, nextLocation, snakeNo)]

\* lines 360-374: the if / else-if chain deciding what the move of snake
\* snakeNo (object a, head already moved) collides with
ResolveHead(acc, m, a, snakeNo, locPair, nextLocation) ==
    LET st == m.states[acc.next]
        otherSnake(no) == st.Snakes[no + 1]
    IN IF ~IsInsideBounds(nextLocation, st.Width, st.Height)
       THEN [acc EXCEPT !.mem = SetDead(m, a)]
       ELSE IF nextLocation \in DOMAIN acc.nextHeadLocations
       THEN [acc EXCEPT !.mem =
                SetDead(SetDead(m, a), otherSnake(acc.nextHeadLocations[nextLocation]))]
       ELSE IF Swap(locPair) \in DOMAIN acc.headLocations
       THEN [acc EXCEPT !.mem =
                SetDead(SetDead(m, a), otherSnake(acc.headLocations[Swap(locPair)]))]
       ELSE [acc EXCEPT !.mem = m,
                        !.headLocations = MapPut(@, locPair, snakeNo),
                        !.nextHeadLocations = MapPut(@, nextLocation, snakeNo)]

\* a piece appended on every tick, whatever the Length
GrowSnakeEveryTick(m, a, ate) ==
    AppendPiece([m EXCEPT !.snakes[a].Length = @ + (IF ate THEN 1 ELSE 0)], a)

\* lines 347-353: the snake grows by one when it reaches the apple, and
\* gets one more piece while it is shorter than its Length
GrowSnake(m, a, ate) ==
    IF m.snakes[a].Length + (IF ate THEN 1 ELSE 0) > m.snakes[a].Pieces.len
    THEN AppendPiece([m EXCEPT !.snakes[a].Length = @ + (IF ate THEN 1 ELSE 0)], a)
    ELSE [m EXCEPT !.snakes[a].Length = @ + (IF ate THEN 1 ELSE 0)]

\* lines 354-357: the whole shift loop of snake a
ShiftSnake(m, a, tails, snakeNo) ==
    ShiftPieces(m, a, m.snakes[a].Pieces.len, tails, snakeNo)

\* lines 358-359: locPair is taken, the head is moved; then the collisions
MoveHead(acc, sh, a, snakeNo, nextLocation) ==
    ResolveHead([acc EXCEPT !.tails = sh.tails],
                [sh.mem EXCEPT !.arrays[sh.mem.snakes[a].Pieces.arr][1] = nextLocation],
                a, snakeNo,
                <<sh.mem.arrays[sh.mem.snakes[a].Pieces.arr][1], nextLocation>>,
                nextLocation)

\* lines 346-375 for an alive snake a whose next location is known
MoveSnake(acc, a, snakeNo, nextLocation, ate) ==
    MoveHead([acc EXCEPT !.repositionApple = @ \/ ate],
             ShiftSnake(GrowSnake(acc.mem, a, ate), a, acc.tails, snakeNo),
             a, snakeNo, nextLocation)

\* the loop body without the test that skips a dead snake
SnakeStepAtMovingDead(acc, s, a, snakeNo, direction) ==
    IF NextLocationPanics(direction)
    THEN [acc EXCEPT !.panicked = TRUE]
    ELSE MoveSnake(acc, a, snakeNo,
            NextLocation(acc.mem.arrays[acc.mem.snakes[a].Pieces.arr][1], direction),
            NextLocation(acc.mem.arrays[acc.mem.snakes[a].Pieces.arr][1], direction)
                = acc.mem.states[s].Apple)

\* an invalid direction ignored: the snake is skipped like a dead one
SnakeStepAtIgnoringInvalid(acc, s, a, snakeNo, direction) ==
    IF ~acc.mem.snakes[a].Alive \/ NextLocationPanics(direction) THEN acc
    ELSE MoveSnake(acc, a, snakeNo,
            NextLocation(acc.mem.arrays[acc.mem.snakes[a].Pieces.arr][1], direction),
            NextLocation(acc.mem.arrays[acc.mem.snakes[a].Pieces.arr][1], direction)
                = acc.mem.states[s].Apple)

\* lines 343-346: a dead snake is skipped; NextLocation may panic
SnakeStepAt(acc, s, a, snakeNo, direction) ==
    IF ~acc.mem.snakes[a].Alive THEN acc
    ELSE IF NextLocationPanics(direction)
    THEN [acc EXCEPT !.panicked = TRUE]
    ELSE MoveSnake(acc, a, snakeNo,
            NextLocation(acc.mem.arrays[acc.mem.snakes[a].Pieces.arr][1], direction),
            NextLocation(acc.mem.arrays[acc.mem.snakes[a].Pieces.arr][1], direction)
                = acc.mem.states[s].Apple)

\* the body of the loop moving the snake at index i even when it is dead
SnakeStepDeadToo(acc, s, i, snakeDirections) ==
    SnakeStepAtMovingDead(acc, s, acc.mem.states[acc.next].Snakes[i], i - 1,
                          snakeDirections[i])

\* lines 343-375: the body of the loop over next.Snakes for index i
SnakeStep(acc, s, i, snakeDirections) ==
    SnakeStepAt(acc, s, acc.mem.states[acc.next].Snakes[i], i - 1, snakeDirections[i])

RECURSIVE NextLoop(_, _, _, _)
\* line 342: for snakeNo, snake := range next.Snakes; a panic ends the loop
NextLoop(acc, s, i, snakeDirections) ==
    IF i > Len(acc.mem.states[acc.next].Snakes) \/ acc.panicked THEN acc
    ELSE NextLoop(SnakeStep(acc, s, i, snakeDirections), s, i + 1, snakeDirections)

RECURSIVE TailLoop(_, _, _, _, _)
\* lines 378-382: the loop over nextHeadLocations; its iterations commute, so
\* they are taken in slot order (i is the index of the slot looked at)
TailLoop(m, next, nextHeadLocations, tails, i) ==
    IF i > Len(m.states[next].Snakes) THEN m
    ELSE IF \E loc \in (DOMAIN nextHeadLocations) \cap (DOMAIN tails) :
                nextHeadLocations[loc] = i - 1
         THEN TailLoop(SetDead(m, m.states[next].Snakes[i]),
                       next, nextHeadLocations, tails, i + 1)
         ELSE TailLoop(m, next, nextHeadLocations, tails, i + 1)

RECURSIVE TailLoopOthersOnly(_, _, _, _, _)
TailLoopOthersOnly(m, next, nextHeadLocations, tails, i) ==
    IF i > Len(m.states[next].Snakes) THEN m
    ELSE IF \E loc \in (DOMAIN nextHeadLocations) \cap (DOMAIN tails) :
                nextHeadLocations[loc] = i - 1 /\ tails[loc] # i - 1
         THEN TailLoopOthersOnly(SetDead(m, m.states[next].Snakes[i]),
                                 next, nextHeadLocations, tails, i + 1)
         ELSE TailLoopOthersOnly(m, next, nextHeadLocations, tails, i + 1)

\* the tail collisions with a head on its own snake's body left out
TailCollisionsOthersOnly(m, next, nextHeadLocations, tails) ==
    TailLoopOthersOnly(m, next, nextHeadLocations, tails, 1)

\* lines 377-382: every registered head that is on a cell of tails dies
TailCollisions(m, next, nextHeadLocations, tails) ==
    TailLoop(m, next, nextHeadLocations, tails, 1)

\* the new apple location computed but not stored
NextAppleNotStored(m, next, g) ==
    IF g.outcome = "returned"
    THEN [mem |-> m, outcome |-> "returned", state |-> next]
    ELSE [mem |-> m, outcome |-> g.outcome, state |-> 0]

\* lines 384-388
NextApple(m, next, g) ==
    IF g.outcome = "returned"
    THEN [mem |-> [m EXCEPT !.states[next].Apple = g.loc],
          outcome |-> "returned", state |-> next]
    ELSE [mem |-> m, outcome |-> g.outcome, state |-> 0]

\* the apple left where it is even when a snake reached it
NextRepositionNever(m, next, repositionApple) ==
    [mem |-> m, outcome |-> "returned", state |-> next]

\* lines 384-386: the apple is moved only when a snake reached it
NextReposition(m, next, repositionApple) ==
    IF ~repositionApple
    THEN [mem |-> m, outcome |-> "returned", state |-> next]
    ELSE NextApple(m, next,
            GenerateAppleLocation(m, m.states[next].Width, m.states[next].Height,
                                  m.states[next].Snakes))

\* lines 377-388: what follows the loop, unless it panicked
NextFinish(acc) ==
    IF acc.panicked
    THEN [mem |-> acc.mem, outcome |-> "panic", state |-> 0]
    ELSE NextReposition(
            TailCollisions(acc.mem, acc.next, acc.nextHeadLocations, acc.tails),
            acc.next, acc.repositionApple)

\* the cells of the snakes of the arena s that are dead
DeadCells(m, s) ==
    UNION {{m.arrays[m.snakes[m.states[s].Snakes[i]].Pieces.arr][k] :
                k \in 1..m.snakes[m.states[s].Snakes[i]].Pieces.len} :
           i \in {j \in 1..Len(m.states[s].Snakes) :
                     ~m.snakes[m.states[s].Snakes[j]].Alive}}

\* tails starting with the cells of the dead snakes in it
NextStartWithDeadTails(c) ==
    [mem |-> c.mem, next |-> c.newState,
     tails |-> [l \in DeadCells(c.mem, c.newState) |-> 0],
     headLocations |-> EmptyMap,
     nextHeadLocations |-> EmptyMap,
     repositionApple |-> FALSE, panicked |-> FALSE]

\* lines 335-340
NextStart(c) ==
    [mem |-> c.mem, next |-> c.newState,
     tails |-> EmptyMap, headLocations |-> EmptyMap,
     nextHeadLocations |-> EmptyMap,
     repositionApple |-> FALSE, panicked |-> FALSE]

\* State.Next -> [mem, outcome, state]
Next(m, s, snakeDirections) ==
    IF Len(snakeDirections) # Len(m.states[s].Snakes)
    THEN [mem |-> m, outcome |-> "panic", state |-> 0]
    ELSE NextFinish(NextLoop(NextStart(clone(m, s)), s, 1, snakeDirections))

----------------------------------------------------------------------------
(* IsCompleted *)

RECURSIVE IsCompletedFrom(_, _, _, _, _)
\* the loop of IsCompleted from index i on, with its two locals
IsCompletedFrom(m, snakes, i, alive, nonAlive) ==
    IF i > Len(snakes) THEN <<alive >= 0 \/ nonAlive, alive>>
    ELSE IF m.snakes[snakes[i]].Alive
    THEN IF alive >= 0 THEN <<FALSE, 0>>
         ELSE IsCompletedFrom(m, snakes, i + 1, i - 1, FALSE)
    ELSE IsCompletedFrom(m, snakes, i + 1, alive, nonAlive)

RECURSIVE IsCompletedFromAbove0(_, _, _, _, _)
IsCompletedFromAbove0(m, snakes, i, alive, nonAlive) ==
    IF i > Len(snakes) THEN <<alive >= 0 \/ nonAlive, alive>>
    ELSE IF m.snakes[snakes[i]].Alive
    THEN IF alive > 0 THEN <<FALSE, 0>>
         ELSE IsCompletedFromAbove0(m, snakes, i + 1, i - 1, FALSE)
    ELSE IsCompletedFromAbove0(m, snakes, i + 1, alive, nonAlive)

\* IsCompleted testing alive > 0 where the code tests alive >= 0
IsCompletedAbove0(m, s) == IsCompletedFromAbove0(m, m.states[s].Snakes, 1, -1, TRUE)

\* State.IsCompleted -> <<completed, winner>>
IsCompleted(m, s) == IsCompletedFrom(m, m.states[s].Snakes, 1, -1, TRUE)

----------------------------------------------------------------------------
(* The server and its goroutines as they are before anything has run *)

\* bounds: connection handlers for players and for viewers, callers of Stop
MaxClientTasks == 3
MaxViewerTasks == 2
MaxStopTasks == 2

ClientTasks == 1..MaxClientTasks

ViewerTasks == (MaxClientTasks + 1)..(MaxClientTasks + MaxViewerTasks)

StopTasks == (MaxClientTasks + MaxViewerTasks + 1)
                ..(MaxClientTasks + MaxViewerTasks + MaxStopTasks)

\* the nil *Message: s.lastMessage before the first broadcast
NilMessage == [kind |-> "nil", id |-> 0]

\* NewServer(config): no clients, no viewers, the stopped channel open, the
\* clientsUpdated channel (capacity 1) empty, both mutexes unlocked.
\* sent counts the messages broadcast while their identity is observed
\* (observe), and crashed records a fatal runtime error of the process.
NewServer(config, observe) ==
    [config |-> config,
     viewers |-> <<>>, lastMessage |-> NilMessage,
     clientsMu |-> FALSE, clients |-> <<>>,
     isStopped |-> 0, stopped |-> FALSE,
     clientsUpdated |-> 0,
     observe |-> observe, sent |-> 0, crashed |-> "no"]

\* ServerConfig{MinimumClients: 2}, as the command starts the server
DefaultConfig == [MinimumClients |-> 2]

\* the goroutine of Server.Run before its first statement.  Beside its
\* position and its locals the record keeps what it broadcast last (did), to
\* whom (to), to how many clients the last preparation message went
\* (prepared), whether its last wait was entered after it had come back to
\* the top from the test of line 155 (from), and whether it has received
\* from s.stopped (stopObserved)
RunStart ==
    [pc |-> "top", roundClients |-> <<>>, gmem |-> EmptyMem, gameState |-> 0,
     ticks |-> 0, timer |-> "off",
     did |-> "none", to |-> <<>>, prepared |-> 0, from |-> "none",
     stopObserved |-> FALSE]

\* the name of a connection: a string, here the sequence of its characters,
\* each given by the number of bytes of its encoding (0: a byte that is no
\* valid UTF-8)
NoName == <<>>

\* a goroutine that has not started: no connection, nothing received.  A
\* handler serves one connection and ends (pc "done")
IdleTask ==
    [pc |-> "idle", name |-> NoName, direction |-> DirectionNorth,
     inbox |-> <<>>, since |-> 0, broken |-> FALSE, err |-> "none",
     checked |-> FALSE]

NoTasks == [t \in ClientTasks \cup ViewerTasks \cup StopTasks |-> IdleTask]

\* bound: the goroutines that call Move on the turns of the bot
MaxMovers == 2

Movers == 1..MaxMovers

\* a goroutine of the program of the bot that is in no call of Move
IdleMover == [pc |-> "idle", turn |-> 0, calls |-> 0, refused |-> 0]

\* NewWebSocketBot once it has returned: the connection is made, w.rounds is
\* open, and the reader goroutine is at its first ReadJSON with currentRound
\* nil (0).  made lists the BotRounds the reader has created, turns the
\* BotTurns it has handed over; net is what the server is doing at the
\* other end of the connection (in the lobby, or in a round with the snake
\* of the bot alive or dead)
NewWebSocketBot ==
    [pc |-> "read", currentRound |-> 0, msg |-> [kind |-> "none"],
     rounds |-> "open", made |-> <<>>, turns |-> <<>>,
     err |-> "none", crashed |-> "no", net |-> "lobby",
     movers |-> [c \in Movers |-> IdleMover]]

----------------------------------------------------------------------------
(* The engine driven through its API *)

Configs ==
    [Width : 0..MaxWidth, Height : 0..MaxHeight,
     SnakeCount : 0..MaxCount, InitialSnakeLength : 0..MaxInitLen]

NoConfig == [Width |-> 0, Height |-> 0, SnakeCount |-> 0, InitialSnakeLength |-> 0]

\* direction vectors handed to Next for the arena s: every choice of a valid
\* direction for each alive slot (North for the dead ones), the same vectors
\* with one entry replaced by an invalid direction or with the dead slots
\* pointing South, and vectors one entry too short or too long
DirVectors(m, s) ==
    LET n == Len(m.states[s].Snakes)
        alive(i) == m.snakes[m.states[s].Snakes[i]].Alive
        north == [i \in 1..n |-> DirectionNorth]
        good == {d \in [1..n -> ValidDirections] :
                    \A i \in 1..n : ~alive(i) => d[i] = DirectionNorth}
    IN good
       \cup {[north EXCEPT ![k] = DirectionInvalid] : k \in 1..n}
       \cup {[i \in 1..n |-> IF alive(i) THEN DirectionEast ELSE DirectionSouth]}
       \cup {SubSeq(north, 1, n - 1), Append(north, DirectionNorth)}

NoCall ==
    [op |-> "none", cfg |-> NoConfig, dirs |-> <<>>, in |-> 0,
     outcome |-> "returned", out |-> 0, completed |-> <<FALSE, 0>>]

NoApples == <<>>

Init ==
    /\ mem = EmptyMem
    /\ cur = 0
    /\ call = NoCall
    /\ snap = <<>>
    /\ other = [mem |-> EmptyMem, cur |-> 0, call |-> NoCall, apples |-> NoApples]
    /\ srv = NewServer(DefaultConfig, FALSE)
    /\ run = RunStart
    /\ tasks = NoTasks
    /\ bot = NewWebSocketBot

\* what the caller knows after a call with result r; after Next returns it
\* asks the new arena whether the game is completed
CallRecord(op, cfg, dirs, in, r) ==
    [op |-> op, cfg |-> cfg, dirs |-> dirs, in |-> in,
     outcome |-> r.outcome, out |-> r.state,
     completed |-> IF op = "Next" /\ r.outcome = "returned"
                   THEN IsCompleted(r.mem, r.state) ELSE <<FALSE, 0>>]

\* the caller after a call with result r: it holds the returned arena, or
\* keeps what it held when the call did not return
Called(op, cfg, dirs, r) ==
    /\ mem' = r.mem
    /\ cur' = IF r.outcome = "returned" THEN r.state ELSE cur
    /\ call' = CallRecord(op, cfg, dirs, cur, r)
    /\ snap' = IF r.outcome = "returned"
               THEN Append(snap, StateVal(r.mem, r.state)) ELSE snap
    /\ UNCHANGED <<srv, run, tasks, bot>>

\* gameState := NewState(cfg)
NewStateCall ==
    /\ call.op = "none"
    /\ \E cfg \in Configs : Called("NewState", cfg, <<>>, NewState(mem, cfg))
    /\ UNCHANGED other

\* gameState = gameState.Next(directions); completed, winner := IsCompleted()
NextCall ==
    /\ cur # 0
    /\ call.outcome = "returned"
    /\ Len(mem.states) <= MaxTicks
    /\ \E dirs \in DirVectors(mem, cur) :
         Called("Next", call.cfg, dirs, Next(mem, cur, dirs))
    /\ UNCHANGED other

EngineNext == NewStateCall \/ NextCall

Spec == Init /\ [][EngineNext]_vars

----------------------------------------------------------------------------
(* Two games side by side, and GenerateAppleLocation applied to both arenas *)

PairMaxCount == 2
PairMaxTicks == 1

PairConfigs ==
    {cfg \in Configs : /\ cfg.SnakeCount >= 2
                       /\ cfg.SnakeCount <= PairMaxCount
                       /\ cfg.SnakeCount <= cfg.Width
                       /\ cfg.Height >= 1
                       /\ cfg.InitialSnakeLength >= 1}

PairNewStateCall ==
    /\ call.op = "none"
    /\ \E cfg \in PairConfigs : Called("NewState", cfg, <<>>, NewState(mem, cfg))
    /\ UNCHANGED other

PairNextCall ==
    /\ cur # 0
    /\ call.outcome = "returned"
    /\ other.apples = NoApples
    /\ Len(mem.states) <= PairMaxTicks
    /\ \E dirs \in DirVectors(mem, cur) :
         Called("Next", call.cfg, dirs, Next(mem, cur, dirs))
    /\ UNCHANGED other

OtherCalled(op, cfg, dirs, r) ==
    /\ other' = [mem |-> r.mem,
                 cur |-> IF r.outcome = "returned" THEN r.state ELSE other.cur,
                 call |-> CallRecord(op, cfg, dirs, other.cur, r),
                 apples |-> NoApples]
    /\ UNCHANGED <<mem, cur, call, snap, srv, run, tasks, bot>>

OtherNewStateCall ==
    /\ other.call.op = "none"
    /\ \E cfg \in PairConfigs :
         OtherCalled("NewState", cfg, <<>>, NewState(other.mem, cfg))

OtherNextCall ==
    /\ other.cur # 0
    /\ other.call.outcome = "returned"
    /\ other.apples = NoApples
    /\ Len(other.mem.states) <= PairMaxTicks
    /\ \E dirs \in DirVectors(other.mem, other.cur) :
         OtherCalled("Next", other.call.cfg, dirs, Next(other.mem, other.cur, dirs))

\* GenerateAppleLocation(width, height, snakes) of the arena s
AppleFor(m, s) ==
    GenerateAppleLocation(m, m.states[s].Width, m.states[s].Height, m.states[s].Snakes)

\* GenerateAppleLocation is called on the current arena of each game
GenerateAppleCall ==
    /\ cur # 0 /\ call.outcome = "returned"
    /\ other.cur # 0 /\ other.call.outcome = "returned"
    /\ other.apples = NoApples
    /\ other' = [other EXCEPT !.apples = <<AppleFor(mem, cur),
                                           AppleFor(other.mem, other.cur)>>]
    /\ UNCHANGED <<mem, cur, call, snap, srv, run, tasks, bot>>

PairNext ==
    \/ PairNewStateCall
    \/ PairNextCall
    \/ OtherNewStateCall
    \/ OtherNextCall
    \/ GenerateAppleCall

PairSpec == Init /\ [][PairNext]_vars

----------------------------------------------------------------------------
(* Connections and their names *)

\* the largest number of code points validBotName accepts
MaxNameRunes == 16

RECURSIVE ByteLen(_)
\* len(name): a character takes its encoding's bytes, an invalid byte one
ByteLen(name) ==
    IF name = <<>> THEN 0
    ELSE (IF Head(name) = 0 THEN 1 ELSE Head(name)) + ByteLen(Tail(name))

\* utf8.ValidString(name)
ValidString(name) == \A k \in 1..Len(name) : name[k] # 0

\* utf8.RuneCountInString(name): an invalid byte counts as one rune
RuneCountInString(name) == Len(name)

\* validBotName without the test of the empty name
validBotNameAllowingEmpty(name) ==
    /\ ValidString(name)
    /\ ~(RuneCountInString(name) > MaxNameRunes)

\* validBotName
validBotName(name) ==
    /\ ~(ByteLen(name) = 0)
    /\ ValidString(name)
    /\ ~(RuneCountInString(name) > MaxNameRunes)

RECURSIVE Repeat(_, _)
\* a name of n characters of w bytes each
Repeat(n, w) == IF n = 0 THEN <<>> ELSE Append(Repeat(n - 1, w), w)

\* the names connections present: short ones (NamesOf), one of exactly
\* MaxNameRunes multi-byte characters, and three that are not valid (empty,
\* one character too long, holding a byte that is no UTF-8)
LongName == Repeat(MaxNameRunes, 3)

InvalidNames == {<<>>, Repeat(MaxNameRunes + 1, 1), <<1, 0>>}

\* the names handler t presents: the first two handlers always the same
\* name each, the others any name
NamesOf(t) ==
    IF t = 1 THEN {<<1>>}
    ELSE IF t = 2 THEN {<<2>>}
    ELSE {<<1>>, <<3>>}

\* Client.ID() of the connection of handler t
ID(tk, t) == tk[t].name

----------------------------------------------------------------------------
(* Messages *)

\* &Message{WaitingMessage: &WaitingMessage{...}}
WaitingMessage(id, currentPlayers, requiredPlayers) ==
    [kind |-> "Waiting", id |-> id,
     CurrentPlayers |-> currentPlayers, RequiredPlayers |-> requiredPlayers]

\* &Message{RoundPreparation: &RoundPreparationMessage{}}
RoundPreparationMessage(id) == [kind |-> "Preparing", id |-> id]

RECURSIVE PlayersFrom(_, _, _, _, _)
\* the loop of roundStateMessageFromState: one player per client, with a
\* copy of the pieces of its snake when that snake is alive
PlayersFrom(tk, clients, m, s, i) ==
    IF i > Len(clients) THEN <<>>
    ELSE <<[Name |-> ID(tk, clients[i]),
            Pieces |-> IF m.snakes[m.states[s].Snakes[i]].Alive
                       THEN SliceElems(m, m.snakes[m.states[s].Snakes[i]].Pieces)
                       ELSE <<>>]>>
         \o PlayersFrom(tk, clients, m, s, i + 1)

\* the players with the pieces of every snake, alive or not
PlayersWithDeadPieces(tk, clients, m, s) ==
    [i \in 1..Len(clients) |->
        [Name |-> ID(tk, clients[i]),
         Pieces |-> SliceElems(m, m.snakes[m.states[s].Snakes[i]].Pieces)]]

\* roundStateMessageFromState without the test of snake.Alive
roundStateMessageWithDeadPieces(id, tk, clients, m, s) ==
    [kind |-> "RoundState", id |-> id,
     Width |-> m.states[s].Width, Height |-> m.states[s].Height,
     Players |-> PlayersWithDeadPieces(tk, clients, m, s),
     Apple |-> m.states[s].Apple]

\* &Message{RoundStateMessage: roundStateMessageFromState(clients, s)}
roundStateMessageFromState(id, tk, clients, m, s) ==
    [kind |-> "RoundState", id |-> id,
     Width |-> m.states[s].Width, Height |-> m.states[s].Height,
     Players |-> PlayersFrom(tk, clients, m, s, 1),
     Apple |-> m.states[s].Apple]

\* &Message{RoundOverMessage: rom}: Winner is set when winner >= 0
RoundOverMessage(id, winner) ==
    [kind |-> "RoundOver", id |-> id,
     Winner |-> IF winner >= 0 THEN <<winner>> ELSE <<>>]

----------------------------------------------------------------------------
(* Server: channels, mutexes, broadcast *)

\* bound on the broadcasts made while message identities are observed
MaxMessages == 5

\* a send on a channel that queues every notification
signalQueued(sv) == [sv EXCEPT !.clientsUpdated = @ + 1]

\* signalClientsUpdated: a send that is dropped when the buffer is full
signalClientsUpdated(sv) == [sv EXCEPT !.clientsUpdated = 1]

\* clearClientsUpdated: a receive that is skipped when the buffer is empty
clearClientsUpdated(sv) == [sv EXCEPT !.clientsUpdated = 0]

\* s.clientsMu.Unlock(): unlocking a mutex that is not locked is a fatal
\* error of the runtime, which ends the process
Unlock(sv) ==
    IF sv.clientsMu THEN [sv EXCEPT !.clientsMu = FALSE]
    ELSE [sv EXCEPT !.crashed = "unlock of unlocked mutex"]

\* the identity of the next Message allocated for a broadcast
NextId(sv) == IF sv.observe THEN sv.sent + 1 ELSE 0

\* c.SendMessage(msg): the connection of t gets the message unless its
\* write fails
SendMessage(sv, tk, t, msg) ==
    IF sv.observe /\ ~tk[t].broken
    THEN [tk EXCEPT ![t].inbox = Append(@, msg.id)]
    ELSE tk

RECURSIVE SendAllStoppingAtFailure(_, _, _, _, _)
SendAllStoppingAtFailure(sv, tk, recipients, i, msg) ==
    IF i > Len(recipients) \/ tk[recipients[i]].broken THEN tk
    ELSE SendAllStoppingAtFailure(sv, SendMessage(sv, tk, recipients[i], msg),
                                   recipients, i + 1, msg)

RECURSIVE SendAll(_, _, _, _, _)
\* for _, viewer := range ... { viewer.SendMessage(msg) }: errors are dropped
SendAll(sv, tk, recipients, i, msg) ==
    IF i > Len(recipients) THEN tk
    ELSE SendAll(sv, SendMessage(sv, tk, recipients[i], msg), recipients, i + 1, msg)

\* broadcast that gives up at the first send that fails
broadcastStoppingAtFailure(sv, tk, msg, clients) ==
    [srv |-> [sv EXCEPT !.lastMessage = msg,
                        !.sent = IF sv.observe THEN @ + 1 ELSE @],
     tasks |-> SendAllStoppingAtFailure(sv, tk, sv.viewers \o clients, 1, msg)]

\* Server.broadcast(msg, clients...) -> [srv, tasks], under broadcastMu
broadcast(sv, tk, msg, clients) ==
    [srv |-> [sv EXCEPT !.lastMessage = msg,
                        !.sent = IF sv.observe THEN @ + 1 ELSE @],
     tasks |-> SendAll(sv, SendAll(sv, tk, sv.viewers, 1, msg), clients, 1, msg)]

\* the process has not died: its goroutines may take steps
ServerUp == srv.crashed = "no"

\* a goroutine other than self is between Lock and Unlock of clientsMu
OthersInside(tk, self) ==
    \E u \in ClientTasks : u # self /\ tk[u].pc \in {"addLocked", "removeLocked"}

\* two goroutines inside the sections of clientsMu at once: a data race on
\* s.clients, after which nothing is known about the process
Raced(sv, tk, self) ==
    IF OthersInside(tk, self) THEN [sv EXCEPT !.crashed = "data race"] ELSE sv

----------------------------------------------------------------------------
(* The registry: AddClient, RemoveClient and the handlers calling them *)

\* the directions a connection writes into its direction cell
DirChoices == {DirectionNorth, DirectionSouth}

\* the connections that send direction messages
Steerers == {1}

\* for _, client := range s.clients { if client.ID() == id ... }
HasID(sv, tk, id) == \E k \in 1..Len(sv.clients) : ID(tk, sv.clients[k]) = id

\* the index of the first client with that ID
IndexOfID(sv, tk, id) ==
    CHOOSE k \in 1..Len(sv.clients) :
        /\ ID(tk, sv.clients[k]) = id
        /\ \A j \in 1..(k - 1) : ID(tk, sv.clients[j]) # id

\* append(s.clients[:i], s.clients[i+1:]...)
RemoveAt(seq, k) == SubSeq(seq, 1, k - 1) \o SubSeq(seq, k + 1, Len(seq))

\* lines 228-234: the message AddClient sends to the client it is about to
\* append, "in case we're in the middle of a round"
JoinMessage(sv) == WaitingMessage(0, 1, sv.config.MinimumClients)

\* AddClient without the test for a duplicate ID
AddClientNoDuplicateTest(sv, tk, t) ==
    [srv |-> Unlock(signalClientsUpdated([sv EXCEPT !.clients = Append(@, t)])),
     tasks |-> [SendMessage(sv, tk, t, JoinMessage(sv))
                   EXCEPT ![t].pc = "running", ![t].err = "none"]]

\* Server.AddClient(c) after s.clientsMu.Lock(), to its return -> [srv, tasks]
AddClient(sv, tk, t) ==
    IF HasID(sv, tk, ID(tk, t))
    THEN [srv |-> Unlock(sv),
          tasks |-> [tk EXCEPT ![t].pc = "done", ![t].err = "duplicate client ID"]]
    ELSE [srv |-> Unlock(signalClientsUpdated([sv EXCEPT !.clients = Append(@, t)])),
          tasks |-> [SendMessage(sv, tk, t, JoinMessage(sv))
                        EXCEPT ![t].pc = "running", ![t].err = "none"]]

\* Server.RemoveClient(c) after s.clientsMu.Lock(), to its return
RemoveClient(sv, tk, t) ==
    IF HasID(sv, tk, ID(tk, t))
    THEN [srv |-> Unlock(signalClientsUpdated(
                     [sv EXCEPT !.clients = RemoveAt(@, IndexOfID(sv, tk, ID(tk, t)))])),
          tasks |-> [tk EXCEPT ![t].pc = "done", ![t].err = "removed"]]
    ELSE [srv |-> Unlock(sv),
          tasks |-> [tk EXCEPT ![t].pc = "done", ![t].err = "not removed"]]

\* a new connection, with its name, its zero direction cell, nothing received
NewClient(name, checked) ==
    [IdleTask EXCEPT !.pc = "add", !.name = name, !.checked = checked]

\* NewWebSocketClient(conn, r): nil and an error for a name that is not
\* valid, otherwise the client the handler goes on to add
NewWebSocketClient(tk, t, name) ==
    IF ~validBotName(name)
    THEN [tk EXCEPT ![t] = [IdleTask EXCEPT !.pc = "done", !.name = name,
                                            !.err = "invalid snake name"]]
    ELSE [tk EXCEPT ![t] = NewClient(name, TRUE)]

\* the handler of /ws accepts a connection and builds its client
Connect(t) ==
    /\ ServerUp
    /\ tasks[t].pc = "idle"
    /\ \E name \in NamesOf(t) \cup {LongName} \cup InvalidNames :
         tasks' = NewWebSocketClient(tasks, t, name)
    /\ UNCHANGED <<bot, mem, cur, call, snap, other, srv, run>>

\* a caller of the package hands AddClient a Client of its own, whose ID
\* no one has tested
ConnectDirect(t) ==
    /\ ServerUp
    /\ tasks[t].pc = "idle"
    /\ \E name \in NamesOf(t) \cup InvalidNames :
         tasks' = [tasks EXCEPT ![t] = NewClient(name, FALSE)]
    /\ UNCHANGED <<bot, mem, cur, call, snap, other, srv, run>>

\* the handler of /ws with the names of the players only
ConnectPlayer(t) ==
    /\ ServerUp
    /\ tasks[t].pc = "idle"
    /\ \E name \in NamesOf(t) : tasks' = NewWebSocketClient(tasks, t, name)
    /\ UNCHANGED <<bot, mem, cur, call, snap, other, srv, run>>

\* server.AddClient(client): s.clientsMu.Lock()
AddClientLock(t) ==
    /\ ServerUp
    /\ tasks[t].pc = "add"
    /\ ~srv.clientsMu
    /\ srv' = [srv EXCEPT !.clientsMu = TRUE]
    /\ tasks' = [tasks EXCEPT ![t].pc = "addLocked"]
    /\ UNCHANGED <<bot, mem, cur, call, snap, other, run>>

\* the rest of the call with the notification of its last line left out
AddClientCallUnsignalled(t) ==
    /\ ServerUp
    /\ tasks[t].pc = "addLocked"
    /\ \E s \in {AddClient(srv, tasks, t)} :
         /\ srv' = Raced([s.srv EXCEPT !.clientsUpdated = srv.clientsUpdated], tasks, t)
         /\ tasks' = s.tasks
    /\ UNCHANGED <<bot, mem, cur, call, snap, other, run>>

\* server.AddClient(client): the rest of the call
AddClientCall(t) ==
    /\ ServerUp
    /\ tasks[t].pc = "addLocked"
    /\ \E s \in {AddClient(srv, tasks, t)} :
         srv' = Raced(s.srv, tasks, t) /\ tasks' = s.tasks
    /\ UNCHANGED <<bot, mem, cur, call, snap, other, run>>

\* ServerConn.Run: a direction message stores the direction.  A connection
\* sends one such message at most
SetDirection(t) ==
    /\ ServerUp
    /\ t \in Steerers
    /\ tasks[t].pc = "running"
    /\ tasks[t].direction = DirectionNorth
    /\ \E d \in DirChoices \ {tasks[t].direction} :
         tasks' = [tasks EXCEPT ![t].direction = d]
    /\ UNCHANGED <<bot, mem, cur, call, snap, other, srv, run>>

\* ServerConn.Run returns (the connection failed or was closed)
Disconnect(t) ==
    /\ ServerUp
    /\ tasks[t].pc = "running"
    /\ tasks' = [tasks EXCEPT ![t].pc = "remove"]
    /\ UNCHANGED <<bot, mem, cur, call, snap, other, srv, run>>

\* defer server.RemoveClient(client): s.clientsMu.Lock()
RemoveClientLock(t) ==
    /\ ServerUp
    /\ tasks[t].pc = "remove"
    /\ ~srv.clientsMu
    /\ srv' = [srv EXCEPT !.clientsMu = TRUE]
    /\ tasks' = [tasks EXCEPT ![t].pc = "removeLocked"]
    /\ UNCHANGED <<bot, mem, cur, call, snap, other, run>>

\* defer server.RemoveClient(client): the rest of the call
RemoveClientCall(t) ==
    /\ ServerUp
    /\ tasks[t].pc = "removeLocked"
    /\ \E s \in {RemoveClient(srv, tasks, t)} :
         srv' = Raced(s.srv, tasks, t) /\ tasks' = s.tasks
    /\ UNCHANGED <<bot, mem, cur, call, snap, other, run>>

----------------------------------------------------------------------------
(* Server.Run: the game loop, one action per stretch between two points *)
(* where the goroutine can wait                                          *)

\* const size = 50
size == 50

\* bound on the ticks of one round
MaxRoundTicks == 2

\* StateConfig of a round with n snakes
RoundConfig(n) ==
    [Width |-> size, Height |-> size \div 2,
     SnakeCount |-> n, InitialSnakeLength |-> 5]

\* the broadcasts stay within the bound while their identities are observed
MayBroadcast == srv.observe => srv.sent < MaxMessages

\* roundClients[i], roundClients[idx] = roundClients[idx], roundClients[i]
SwapAt(seq, i, idx) == [seq EXCEPT ![i] = seq[idx], ![idx] = seq[i]]

RECURSIVE Shuffle(_, _, _)
\* the shuffle loop, idxs[i] being what rng.Intn returns in turn i
Shuffle(roundClients, idxs, i) ==
    IF i > Len(roundClients) THEN roundClients
    ELSE Shuffle(SwapAt(roundClients, i, idxs[i]), idxs, i + 1)

RECURSIVE CompactFrom(_, _, _, _)
\* the snakes of an arena and their arrays, moved to a heap of their own
CompactFrom(m, snakes, i, acc) ==
    IF i > Len(snakes) THEN acc
    ELSE CompactFrom(m, snakes, i + 1,
            [acc EXCEPT !.arrays = Append(@, m.arrays[m.snakes[snakes[i]].Pieces.arr]),
                        !.snakes = Append(@, [m.snakes[snakes[i]]
                                                 EXCEPT !.Pieces.arr = Len(acc.arrays) + 1])])

RECURSIVE Upto(_)
Upto(n) == IF n = 0 THEN <<>> ELSE Append(Upto(n - 1), n)

\* what the collector leaves of the heap once gameState is the only arena
\* the loop still refers to: that arena alone, as state 1
Compact(m, s) ==
    [CompactFrom(m, m.states[s].Snakes, 1, EmptyMem)
        EXCEPT !.states = <<[m.states[s] EXCEPT !.Snakes = Upto(Len(m.states[s].Snakes))]>>]

\* directions that are never read from the clients
DirectionsNeverRead(tk, roundClients) ==
    [i \in 1..Len(roundClients) |-> DirectionNorth]

\* directions[i] = client.Direction() for every client of the round
Directions(tk, roundClients) ==
    [i \in 1..Len(roundClients) |-> tk[roundClients[i]].direction]

\* the server and the connections after a broadcast b, with Run at r
WithRun(b, r) == [srv |-> b.srv, tasks |-> b.tasks, run |-> r]

\* s.clientsMu.Unlock() after a broadcast b
UnlockIn(b) == [srv |-> Unlock(b.srv), tasks |-> b.tasks]

\* lines 143-146 without the broadcast: the unlock, and on to the wait
PrepareSilently(sv, tk, r) ==
    WithRun(UnlockIn([srv |-> sv, tasks |-> tk]),
            [r EXCEPT !.pc = "preRoundWait", !.timer = "running",
                      !.prepared = Len(sv.clients)])

\* lines 143-146: the preparation message to s.clients, the unlock, and on
\* to the wait of line 148
Prepare(sv, tk, r) ==
    WithRun(UnlockIn(broadcast(sv, tk, RoundPreparationMessage(NextId(sv)), sv.clients)),
            [r EXCEPT !.pc = "preRoundWait", !.timer = "running",
                      !.did = "Preparing", !.to = sv.clients,
                      !.prepared = Len(sv.clients)])

\* lines 125-131: the waiting message to s.clients, the unlock, and on to
\* the select of line 133
Wait(sv, tk, r) ==
    WithRun(UnlockIn(broadcast(sv, tk,
                WaitingMessage(NextId(sv), Len(sv.clients), sv.config.MinimumClients),
                sv.clients)),
            [r EXCEPT !.pc = "waiting",
                      !.did = "Waiting", !.to = sv.clients, !.prepared = 0])

\* lines 121-146 from the top of the loop, the lock taken -> [srv, tasks, run]
LoopTop(sv, tk, r) ==
    IF Len(sv.clients) < sv.config.MinimumClients
    THEN Wait(clearClientsUpdated(sv), tk, r)
    ELSE Prepare(clearClientsUpdated(sv), tk, r)

\* lines 173-182: the arena g built for the roster is broadcast to it, and
\* on to the first tick
RoundStarted(sv, tk, r, roundClients, g) ==
    WithRun(broadcast(sv, tk,
                roundStateMessageFromState(NextId(sv), tk, roundClients, g.mem, g.state),
                roundClients),
            [r EXCEPT !.pc = "tick", !.roundClients = roundClients,
                      !.gmem = g.mem, !.gameState = g.state, !.ticks = 0,
                      !.did = "RoundState", !.to = roundClients])

\* lines 160-182: the roster copied and shuffled, NewState for it
StartRound(sv, tk, r, idxs) ==
    IF NewState(EmptyMem, RoundConfig(Len(sv.clients))).outcome # "returned"
    THEN [srv |-> [sv EXCEPT !.crashed = "panic"], tasks |-> tk, run |-> r]
    ELSE RoundStarted(sv, tk, r, Shuffle(sv.clients, idxs, 1),
                      NewState(EmptyMem, RoundConfig(Len(sv.clients))))

\* lines 154-182 with the test of line 155 left out
AfterGraceNoTest(sv, tk, r, idxs) == StartRound(Unlock(sv), tk, r, idxs)

\* lines 154-182, the lock of line 154 taken: back to the top of the loop
\* when clients are missing, otherwise the round starts
AfterGrace(sv, tk, r, idxs) ==
    IF Len(sv.clients) < sv.config.MinimumClients
    THEN [srv |-> Unlock(sv), tasks |-> tk,
          run |-> [r EXCEPT !.pc = "top", !.from = "graceBelow"]]
    ELSE StartRound(Unlock(sv), tk, r, idxs)

\* RoundOver with the first client of the round as the winner of every game
RoundOverFirstWins(sv, tk, r, winner) ==
    WithRun(broadcast(sv, tk, RoundOverMessage(NextId(sv), 0), r.roundClients),
            [r EXCEPT !.pc = "postRoundWait", !.timer = "running",
                      !.did = "RoundOver", !.to = r.roundClients])

\* lines 198-208 for a game that is completed: the message, then the sleep
RoundOver(sv, tk, r, winner) ==
    WithRun(broadcast(sv, tk, RoundOverMessage(NextId(sv), winner), r.roundClients),
            [r EXCEPT !.pc = "postRoundWait", !.timer = "running",
                      !.did = "RoundOver", !.to = r.roundClients])

\* Ticked with the roster read again from the registry at every tick
TickedRereadingClients(sv, tk, r, n) ==
    WithRun(broadcast(sv, tk,
                roundStateMessageFromState(NextId(sv), tk, r.roundClients, n.mem, n.state),
                r.roundClients),
            [r EXCEPT !.pc = "ticked", !.gmem = Compact(n.mem, n.state), !.gameState = 1,
                      !.ticks = @ + 1, !.roundClients = sv.clients,
                      !.did = "RoundState", !.to = r.roundClients])

\* lines 194-196 for the arena n.state that Next returned, and on to the
\* test of line 198
Ticked(sv, tk, r, n) ==
    WithRun(broadcast(sv, tk,
                roundStateMessageFromState(NextId(sv), tk, r.roundClients, n.mem, n.state),
                r.roundClients),
            [r EXCEPT !.pc = "ticked", !.gmem = Compact(n.mem, n.state), !.gameState = 1,
                      !.ticks = @ + 1,
                      !.did = "RoundState", !.to = r.roundClients])

\* lines 187-196: one tick of the round
Tick(sv, tk, r) ==
    IF Next(r.gmem, r.gameState, Directions(tk, r.roundClients)).outcome # "returned"
    THEN [srv |-> [sv EXCEPT !.crashed = "panic"], tasks |-> tk, run |-> r]
    ELSE Ticked(sv, tk, r, Next(r.gmem, r.gameState, Directions(tk, r.roundClients)))

\* the top of the loop: lines 121-131 or 121-146
RunLoopTop ==
    /\ ServerUp
    /\ run.pc = "top"
    /\ ~srv.clientsMu
    /\ MayBroadcast
    /\ \E s \in {LoopTop([srv EXCEPT !.clientsMu = TRUE], tasks, run)} :
         srv' = s.srv /\ tasks' = s.tasks /\ run' = s.run
    /\ UNCHANGED <<bot, mem, cur, call, snap, other>>

\* line 134: case <-s.clientsUpdated: continue
RunWaitingUpdated ==
    /\ ServerUp
    /\ run.pc = "waiting"
    /\ srv.clientsUpdated = 1
    /\ srv' = [srv EXCEPT !.clientsUpdated = 0]
    /\ run' = [run EXCEPT !.pc = "top", !.from = "none"]
    /\ UNCHANGED <<bot, mem, cur, call, snap, other, tasks>>

\* line 136: case <-s.stopped: break.  The break leaves the select only
RunWaitingStopped ==
    /\ ServerUp
    /\ run.pc = "waiting"
    /\ srv.stopped
    /\ run' = [run EXCEPT !.pc = "afterWaiting", !.from = "none",
                          !.stopObserved = TRUE]
    /\ UNCHANGED <<bot, mem, cur, call, snap, other, srv, tasks>>

\* lines 143-146 reached from the select of line 133: the lock is not held
RunAfterWaiting ==
    /\ ServerUp
    /\ run.pc = "afterWaiting"
    /\ MayBroadcast
    /\ \E s \in {Prepare(srv, tasks, run)} :
         srv' = s.srv /\ tasks' = s.tasks /\ run' = s.run
    /\ UNCHANGED <<bot, mem, cur, call, snap, other>>

\* the timer of time.After or time.Sleep fires
TimerFires ==
    /\ ServerUp
    /\ run.timer = "running"
    /\ run' = [run EXCEPT !.timer = "fired"]
    /\ UNCHANGED <<bot, mem, cur, call, snap, other, srv, tasks>>

\* line 149: case <-time.After(s.config.PreRoundWait)
RunPreRoundTimer ==
    /\ ServerUp
    /\ run.pc = "preRoundWait"
    /\ run.timer = "fired"
    /\ run' = [run EXCEPT !.pc = "afterGrace", !.from = "none", !.timer = "off"]
    /\ UNCHANGED <<bot, mem, cur, call, snap, other, srv, tasks>>

\* line 150: case <-s.stopped: break.  Nothing waits for the timer any more
RunPreRoundStopped ==
    /\ ServerUp
    /\ run.pc = "preRoundWait"
    /\ srv.stopped
    /\ run' = [run EXCEPT !.pc = "afterGrace", !.from = "none", !.timer = "off",
                          !.stopObserved = TRUE]
    /\ UNCHANGED <<bot, mem, cur, call, snap, other, srv, tasks>>

\* lines 154-182
RunAfterGrace ==
    /\ ServerUp
    /\ run.pc = "afterGrace"
    /\ ~srv.clientsMu
    /\ MayBroadcast
    /\ \E idxs \in [1..Len(srv.clients) -> 1..Len(srv.clients)] :
         \E s \in {AfterGrace([srv EXCEPT !.clientsMu = TRUE], tasks, run, idxs)} :
            srv' = s.srv /\ tasks' = s.tasks /\ run' = s.run
    /\ UNCHANGED <<bot, mem, cur, call, snap, other>>

\* lines 187-196: <-ticker.C, the directions, Next, the broadcast
RunTick ==
    /\ ServerUp
    /\ run.pc = "tick"
    /\ run.ticks < MaxRoundTicks
    /\ MayBroadcast
    /\ \E s \in {Tick(srv, tasks, run)} :
         srv' = s.srv /\ tasks' = s.tasks /\ run' = s.run
    /\ UNCHANGED <<bot, mem, cur, call, snap, other>>

\* line 198, the game not completed: the next turn of the tick loop
RunNotCompleted ==
    /\ ServerUp
    /\ run.pc = "ticked"
    /\ ~IsCompleted(run.gmem, run.gameState)[1]
    /\ run' = [run EXCEPT !.pc = "tick"]
    /\ UNCHANGED <<bot, mem, cur, call, snap, other, srv, tasks>>

\* lines 198-207, the game completed
RunRoundOver ==
    /\ ServerUp
    /\ run.pc = "ticked"
    /\ IsCompleted(run.gmem, run.gameState)[1]
    /\ MayBroadcast
    /\ \E s \in {RoundOver(srv, tasks, run, IsCompleted(run.gmem, run.gameState)[2])} :
         srv' = s.srv /\ tasks' = s.tasks /\ run' = s.run
    /\ UNCHANGED <<bot, mem, cur, call, snap, other>>

\* the pause after a round as a select on the timer and on s.stopped
RunPostRoundWakeOrStopped ==
    /\ ServerUp
    /\ run.pc = "postRoundWait"
    /\ (run.timer = "fired" \/ srv.stopped)
    /\ run' = [run EXCEPT !.pc = "top", !.timer = "off",
                          !.roundClients = <<>>, !.gmem = EmptyMem,
                          !.gameState = 0, !.ticks = 0]
    /\ UNCHANGED <<bot, mem, cur, call, snap, other, srv, tasks>>

\* lines 207-211: time.Sleep returns, and the loop starts over
RunPostRoundWake ==
    /\ ServerUp
    /\ run.pc = "postRoundWait"
    /\ run.timer = "fired"
    /\ run' = [run EXCEPT !.pc = "top", !.timer = "off",
                          !.roundClients = <<>>, !.gmem = EmptyMem,
                          !.gameState = 0, !.ticks = 0]
    /\ UNCHANGED <<bot, mem, cur, call, snap, other, srv, tasks>>

\* a step of the goroutine of Server.Run
RunStep ==
    \/ RunLoopTop
    \/ RunWaitingUpdated
    \/ RunWaitingStopped
    \/ RunAfterWaiting
    \/ RunPreRoundTimer
    \/ RunPreRoundStopped
    \/ RunAfterGrace
    \/ RunTick
    \/ RunNotCompleted
    \/ RunRoundOver
    \/ RunPostRoundWake

----------------------------------------------------------------------------
(* Stop and its callers *)

\* a CompareAndSwap that always reports success
CompareAndSwapAlways(sv) ==
    [srv |-> [sv EXCEPT !.isStopped = 1], swapped |-> TRUE]

\* atomic.CompareAndSwapUint32(&s.isStopped, 0, 1) -> [srv, swapped]
CompareAndSwap(sv) ==
    IF sv.isStopped = 0
    THEN [srv |-> [sv EXCEPT !.isStopped = 1], swapped |-> TRUE]
    ELSE [srv |-> sv, swapped |-> FALSE]

\* close(s.stopped): closing a closed channel panics
Close(sv) ==
    IF sv.stopped THEN [sv EXCEPT !.crashed = "close of closed channel"]
    ELSE [sv EXCEPT !.stopped = TRUE]

\* Stop(): line 95
StopSwap(t) ==
    /\ ServerUp
    /\ tasks[t].pc = "idle"
    /\ srv' = CompareAndSwap(srv).srv
    /\ tasks' = [tasks EXCEPT ![t].pc = IF CompareAndSwap(srv).swapped
                                        THEN "close" ELSE "done"]
    /\ UNCHANGED <<bot, mem, cur, call, snap, other, run>>

\* Stop(): line 96
StopClose(t) ==
    /\ ServerUp
    /\ tasks[t].pc = "close"
    /\ srv' = Close(srv)
    /\ tasks' = [tasks EXCEPT ![t].pc = "done", ![t].err = "closed"]
    /\ UNCHANGED <<bot, mem, cur, call, snap, other, run>>

----------------------------------------------------------------------------
(* Viewers *)

\* Server.AddViewer(v) -> [srv, tasks], under broadcastMu
AddViewer(sv, tk, t) ==
    [srv |-> [sv EXCEPT !.viewers = Append(@, t)],
     tasks |-> [SendMessage(sv, tk, t, sv.lastMessage)
                   EXCEPT ![t].pc = "running", ![t].since = sv.lastMessage.id]]

\* the index of the first viewer that is v
IndexOfViewer(sv, t) ==
    CHOOSE k \in 1..Len(sv.viewers) :
        /\ sv.viewers[k] = t
        /\ \A j \in 1..(k - 1) : sv.viewers[j] # t

\* Server.RemoveViewer(v), under broadcastMu
RemoveViewer(sv, t) ==
    IF \E k \in 1..Len(sv.viewers) : sv.viewers[k] = t
    THEN [sv EXCEPT !.viewers = RemoveAt(@, IndexOfViewer(sv, t))]
    ELSE sv

\* the handler of /viewer/ws: server.AddViewer(client)
AddViewerCall(t) ==
    /\ ServerUp
    /\ tasks[t].pc = "idle"
    /\ \E s \in {AddViewer(srv, tasks, t)} : srv' = s.srv /\ tasks' = s.tasks
    /\ UNCHANGED <<bot, mem, cur, call, snap, other, run>>

\* the handler of /viewer/ws: client.Run() returns, server.RemoveViewer(client)
RemoveViewerCall(t) ==
    /\ ServerUp
    /\ tasks[t].pc = "running"
    /\ srv' = RemoveViewer(srv, t)
    /\ tasks' = [tasks EXCEPT ![t].pc = "done"]
    /\ UNCHANGED <<bot, mem, cur, call, snap, other, run>>

\* the connection of t fails: from now on every write to it is an error
ConnectionBreaks(t) ==
    /\ ServerUp
    /\ tasks[t].pc = "running"
    /\ ~tasks[t].broken
    /\ tasks' = [tasks EXCEPT ![t].broken = TRUE]
    /\ UNCHANGED <<bot, mem, cur, call, snap, other, srv, run>>

----------------------------------------------------------------------------
(* The server with its goroutines *)

\* a step of the handler of player t
PlayerStep(t) ==
    \/ ConnectPlayer(t)
    \/ AddClientLock(t)
    \/ AddClientCall(t)
    \/ SetDirection(t)
    \/ Disconnect(t)
    \/ RemoveClientLock(t)
    \/ RemoveClientCall(t)

\* Run and the handlers of the players
ServerNext ==
    \/ RunLoopTop
    \/ RunWaitingUpdated
    \/ RunPreRoundTimer
    \/ RunAfterGrace
    \/ RunTick
    \/ RunNotCompleted
    \/ RunRoundOver
    \/ RunPostRoundWake
    \/ TimerFires
    \/ \E t \in ClientTasks : PlayerStep(t)

ServerSpec == Init /\ [][ServerNext]_vars

\* the players of the runs with Stop, and of the runs with viewers
StopPlayers == {1, 2}

ViewerPlayers == {1, 2}

\* Run, the handlers of two players and the callers of Stop
StopNext ==
    \/ RunStep
    \/ TimerFires
    \/ \E t \in StopPlayers : PlayerStep(t)
    \/ \E t \in StopTasks : StopSwap(t) \/ StopClose(t)

StopSpec == Init /\ [][StopNext]_vars

\* the handlers of the players given any name, and callers that hand
\* AddClient a Client of their own
RegistryNext ==
    \E t \in ClientTasks :
        \/ Connect(t)
        \/ ConnectDirect(t)
        \/ AddClientLock(t)
        \/ AddClientCall(t)
        \/ Disconnect(t)
        \/ RemoveClientLock(t)
        \/ RemoveClientCall(t)

RegistrySpec == Init /\ [][RegistryNext]_vars

\* the server with the identity of every message observed
ViewerInit ==
    /\ mem = EmptyMem
    /\ cur = 0
    /\ call = NoCall
    /\ snap = <<>>
    /\ other = [mem |-> EmptyMem, cur |-> 0, call |-> NoCall, apples |-> NoApples]
    /\ srv = NewServer(DefaultConfig, TRUE)
    /\ run = RunStart
    /\ tasks = NoTasks
    /\ bot = NewWebSocketBot

\* the connections whose writes may come to fail: a player and the viewer
\* that is served first
Flaky == {2, MaxClientTasks + 1}

\* Run up to the ticks of a round, two players that stay, and the handlers
\* of the viewers
ViewerNext ==
    \/ RunLoopTop
    \/ RunWaitingUpdated
    \/ RunPreRoundTimer
    \/ RunAfterGrace
    \/ RunTick
    \/ RunNotCompleted
    \/ TimerFires
    \/ \E t \in ViewerPlayers :
         \/ ConnectPlayer(t)
         \/ AddClientLock(t)
         \/ AddClientCall(t)
    \/ \E t \in ViewerTasks : AddViewerCall(t) \/ RemoveViewerCall(t)
    \/ \E t \in Flaky : ConnectionBreaks(t)

ViewerSpec == ViewerInit /\ [][ViewerNext]_vars

----------------------------------------------------------------------------
(* The last call seen from outside: its input and its result as values *)

NextReturned == call.op = "Next" /\ call.outcome = "returned"

\* the input arena of the last call, as it was when the caller received it
In == snap[call.in]

\* the arena the last call returned, read from the heap
Out == StateVal(mem, call.out)

Slots == 1..Len(In.Snakes)

AliveIn(i) == In.Snakes[i].Alive

AliveOut(i) == Out.Snakes[i].Alive

\* segments[0] + delta(direction) of slot i in the last call
NextHead(i) == NextLocation(In.Snakes[i].Pieces[1], call.dirs[i])

Outside(l, sv) == l.X < 0 \/ l.X >= sv.Width \/ l.Y < 0 \/ l.Y >= sv.Height

Range(seq) == {seq[k] : k \in 1..Len(seq)}

----------------------------------------------------------------------------
(* C1 *)

\* C1: Next leaves its input arena unchanged, and no later Next on the
\* returned arena changes it either: every arena ever returned still has, on
\* the heap, the value it had when it was returned.
C1_InputNeverMutated ==
    \A a \in 1..Len(snap) : StateVal(mem, a) = snap[a]

\* two Next calls in a row have returned, and a snake grew a piece in each
C1_Witness ==
    /\ NextReturned
    /\ Len(snap) = 3
    /\ \E i \in Slots :
         /\ Len(snap[2].Snakes[i].Pieces) > Len(snap[1].Snakes[i].Pieces)
         /\ Len(snap[3].Snakes[i].Pieces) > Len(snap[2].Snakes[i].Pieces)

----------------------------------------------------------------------------
(* C2 *)

\* C2: if two entities alive in the input compute the same next head
\* position, both are not alive in the result of Next.
C2_SameNextHeadBothDie ==
    NextReturned =>
        \A i, j \in Slots :
            (i # j /\ AliveIn(i) /\ AliveIn(j) /\ NextHead(i) = NextHead(j))
                => (~AliveOut(i) /\ ~AliveOut(j))

----------------------------------------------------------------------------
(* C3 *)

\* C3: if alive entities A and B move so that nextHead(A) = oldHead(B) and
\* nextHead(B) = oldHead(A), both are not alive in the result of Next.
C3_HeadSwapBothDie ==
    NextReturned =>
        \A i, j \in Slots :
            (/\ i # j /\ AliveIn(i) /\ AliveIn(j)
             /\ NextHead(i) = In.Snakes[j].Pieces[1]
             /\ NextHead(j) = In.Snakes[i].Pieces[1])
                => (~AliveOut(i) /\ ~AliveOut(j))

----------------------------------------------------------------------------
(* C4 *)

\* C4: an entity alive in the input whose next head is outside
\* [0,width) x [0,height) is not alive in the result of Next.
C4_OutOfBoundsDies ==
    NextReturned =>
        \A i \in Slots :
            (AliveIn(i) /\ Outside(NextHead(i), In)) => ~AliveOut(i)

\* one entity leaves the board on its east or south edge while another one
\* survives the tick
C4_Witness ==
    /\ NextReturned
    /\ \E i, j \in Slots :
         /\ AliveIn(i)
         /\ (NextHead(i).X = In.Width \/ NextHead(i).Y = In.Height)
         /\ ~AliveOut(i)
         /\ AliveOut(j)

----------------------------------------------------------------------------
(* C5 *)

\* the segments of slot j in the result other than its head
BodyOut(j) == {Out.Snakes[j].Pieces[k] : k \in 2..Len(Out.Snakes[j].Pieces)}

\* C5: an entity alive in the input whose next head equals a post-shift body
\* position of any entity that was alive in the input, itself included, is
\* not alive in the result of Next, whether or not the owner of the segment
\* dies in the same tick.
C5_TailCollisionDies ==
    NextReturned =>
        \A i, j \in Slots :
            (AliveIn(i) /\ AliveIn(j) /\ NextHead(i) \in BodyOut(j))
                => ~AliveOut(i)

\* an entity runs into the body of another one that dies in the same tick
C5_Witness ==
    /\ NextReturned
    /\ \E i, j \in Slots :
         /\ i # j /\ AliveIn(i) /\ AliveIn(j)
         /\ NextHead(i) \in BodyOut(j)
         /\ ~AliveOut(j)
         /\ ~AliveOut(i)

\* an entity runs into its own body
C5_OwnBody ==
    /\ NextReturned
    /\ \E i \in Slots : AliveIn(i) /\ NextHead(i) \in BodyOut(i)

----------------------------------------------------------------------------
(* C6 *)

\* C6: if an alive entity's next head equals the apple position, then in the
\* result of Next its targetLength is the input targetLength plus one, and
\* the apple has been moved to another cell, inside the bounds, that no
\* segment of an alive entity occupies; also when the eater dies in the tick.
C6_EaterGrowsAppleMoves ==
    NextReturned =>
        \A i \in Slots :
            (AliveIn(i) /\ NextHead(i) = In.Apple) =>
                /\ Out.Snakes[i].Length = In.Snakes[i].Length + 1
                /\ Out.Apple # In.Apple
                /\ ~Outside(Out.Apple, Out)
                /\ \A j \in Slots :
                     AliveOut(j) => Out.Apple \notin Range(Out.Snakes[j].Pieces)

\* the eater dies in the tick in which it reaches the apple
C6_Witness ==
    /\ NextReturned
    /\ \E i \in Slots :
         /\ AliveIn(i) /\ NextHead(i) = In.Apple /\ ~AliveOut(i)
         /\ \E j \in Slots : AliveOut(j)

----------------------------------------------------------------------------
(* C7 *)

AliveSlotsOut == {i \in Slots : AliveOut(i)}

\* C7: IsCompleted returns (true, -1) when no entity is alive, (true, s) when
\* exactly one entity is alive and s is its slot, (false, _) when two or more
\* are alive.
C7_IsCompleted ==
    NextReturned =>
        /\ AliveSlotsOut = {} => call.completed = <<TRUE, -1>>
        /\ \A i \in Slots :
             AliveSlotsOut = {i} => call.completed = <<TRUE, i - 1>>
        /\ Cardinality(AliveSlotsOut) >= 2 => call.completed[1] = FALSE

\* the only survivor is in the last of at least three slots
C7_Witness ==
    /\ NextReturned
    /\ Len(In.Snakes) >= 3
    /\ AliveSlotsOut = {Len(In.Snakes)}

\* two survivors, the first of them in slot 0
C7_TwoAlive ==
    NextReturned /\ Cardinality(AliveSlotsOut) = 2 /\ 1 \in AliveSlotsOut

----------------------------------------------------------------------------
(* C8 *)

\* the current arenas of the two games
ArenaA == StateVal(mem, cur)

ArenaB == StateVal(other.mem, other.cur)

\* GenerateAppleLocation has returned a cell for both of them
ApplesDrawn ==
    /\ other.apples # NoApples
    /\ other.apples[1].outcome = "returned"
    /\ other.apples[2].outcome = "returned"

\* the alive-head configuration: slot by slot the head of an alive entity,
\* the zero coordinate for a dead one
HeadConfig(sv) ==
    [i \in 1..Len(sv.Snakes) |->
        IF sv.Snakes[i].Alive THEN sv.Snakes[i].Pieces[1] ELSE ZeroLocation]

\* the cells of the board covered by a segment of any entity, alive or dead
Occupied(sv) ==
    {l \in UNION {Range(sv.Snakes[i].Pieces) : i \in 1..Len(sv.Snakes)} :
        ~Outside(l, sv)}

\* C8 (as claimed): two arenas (of one board size) with identical alive-head
\* configurations get the same apple cell from GenerateAppleLocation,
\* whatever their body segments and the frozen segments of dead entities.
C8_SameHeadsSameApple ==
    (/\ ApplesDrawn
     /\ HeadConfig(ArenaA) = HeadConfig(ArenaB)
     /\ ArenaA.Width = ArenaB.Width
     /\ ArenaA.Height = ArenaB.Height)
        => other.apples[1].loc = other.apples[2].loc

\* C8 (amended): two arenas of the same width and height with identical
\* alive-head configurations and the same set of board cells covered by
\* segments (of alive or dead entities) get the same apple cell, whatever
\* their targetLengths, the order of their segments and the frozen heads of
\* their dead entities.
C8_SameHeadsSameCellsSameApple ==
    (/\ ApplesDrawn
     /\ HeadConfig(ArenaA) = HeadConfig(ArenaB)
     /\ ArenaA.Width = ArenaB.Width
     /\ ArenaA.Height = ArenaB.Height
     /\ Occupied(ArenaA) = Occupied(ArenaB))
        => other.apples[1].loc = other.apples[2].loc

\* two such arenas that differ in the frozen segments of a dead entity
C8_Witness ==
    /\ ApplesDrawn
    /\ HeadConfig(ArenaA) = HeadConfig(ArenaB)
    /\ ArenaA.Width = ArenaB.Width
    /\ ArenaA.Height = ArenaB.Height
    /\ Occupied(ArenaA) = Occupied(ArenaB)
    /\ \E i \in 1..Len(ArenaA.Snakes) :
         /\ ~ArenaA.Snakes[i].Alive
         /\ ArenaA.Snakes[i].Pieces # ArenaB.Snakes[i].Pieces
    /\ \E i \in 1..Len(ArenaA.Snakes) : ArenaA.Snakes[i].Alive

----------------------------------------------------------------------------
(* C9 *)

NewStateCalled == call.op = "NewState"

ValidConfig(cfg) ==
    /\ 2 <= cfg.SnakeCount /\ cfg.SnakeCount <= cfg.Width
    /\ cfg.Height >= 1
    /\ cfg.InitialSnakeLength >= 1

\* the arena sv is the initial arena of cfg
InitialArena(sv, cfg) ==
    /\ sv.Width = cfg.Width /\ sv.Height = cfg.Height
    /\ Len(sv.Snakes) = cfg.SnakeCount
    /\ \A i \in 1..Len(sv.Snakes) :
         /\ sv.Snakes[i].Alive
         /\ sv.Snakes[i].Length = cfg.InitialSnakeLength
         /\ sv.Snakes[i].Pieces =
              <<Loc((cfg.Width \div cfg.SnakeCount) \div 2
                        + (i - 1) * (cfg.Width \div cfg.SnakeCount),
                    cfg.Height \div 2)>>
         /\ ~Outside(sv.Snakes[i].Pieces[1], sv)
         /\ sv.Apple # sv.Snakes[i].Pieces[1]
         /\ \A j \in 1..Len(sv.Snakes) :
              i # j => sv.Snakes[i].Pieces[1] # sv.Snakes[j].Pieces[1]
    /\ ~Outside(sv.Apple, sv)

\* C9 (as claimed): for every configuration with 2 <= count <= width,
\* height >= 1 and initialLength >= 1, NewState returns the initial arena.
C9_NewStateReturnsArena ==
    (NewStateCalled /\ ValidConfig(call.cfg))
        => (call.outcome = "returned" /\ InitialArena(Out, call.cfg))

\* C9 (amended): the same, for the configurations that leave a cell free,
\* count < width * height.
C9_NewStateReturnsArenaIfRoom ==
    (/\ NewStateCalled /\ ValidConfig(call.cfg)
     /\ call.cfg.SnakeCount < call.cfg.Width * call.cfg.Height)
        => (call.outcome = "returned" /\ InitialArena(Out, call.cfg))

\* an arena of three entities on a board whose width is no multiple of three
C9_Witness ==
    /\ NewStateCalled /\ call.outcome = "returned"
    /\ call.cfg.SnakeCount = 3 /\ call.cfg.Width = 4
    /\ call.cfg.InitialSnakeLength = 2
    /\ InitialArena(Out, call.cfg)

----------------------------------------------------------------------------
(* C10 *)

\* the call did not return an arena and the caller's arena is as it was
NoArenaReturned ==
    /\ call.outcome = "panic"
    /\ call.out = 0
    /\ cur = call.in
    /\ call.in # 0 => StateVal(mem, call.in) = In

NewStateViolation ==
    NewStateCalled /\ (call.cfg.SnakeCount < 2 \/ call.cfg.SnakeCount > call.cfg.Width)

\* C10 (as claimed): NewState panics when count < 2 or count > width, Next
\* panics when the direction vector has not one entry per entity or holds an
\* entry that is no direction; no arena is returned, the input is unchanged.
C10_ViolationsPanic ==
    /\ NewStateViolation => NoArenaReturned
    /\ (/\ call.op = "Next"
        /\ \/ Len(call.dirs) # Len(In.Snakes)
           \/ \E i \in 1..Len(call.dirs) : call.dirs[i] \notin ValidDirections)
         => NoArenaReturned

\* C10 (amended): as claimed, except that an entry that is no direction makes
\* Next panic when it is the entry of an entity that is alive in the input
\* (the entry of a dead entity is never looked at).
C10_ViolationsPanicAliveEntry ==
    /\ NewStateViolation => NoArenaReturned
    /\ (/\ call.op = "Next"
        /\ \/ Len(call.dirs) # Len(In.Snakes)
           \/ \E i \in Slots \cap (1..Len(call.dirs)) :
                AliveIn(i) /\ call.dirs[i] \notin ValidDirections)
         => NoArenaReturned

\* Next panics on the invalid entry of an alive entity that comes after a
\* dead one in the slot order
C10_Witness ==
    /\ call.op = "Next" /\ call.outcome = "panic"
    /\ Len(call.dirs) = Len(In.Snakes)
    /\ \E i, j \in Slots :
         /\ j < i /\ ~AliveIn(j) /\ AliveIn(i)
         /\ call.dirs[i] \notin ValidDirections

----------------------------------------------------------------------------
(* C11 *)

\* the IDs of the members of the registry, in its order
MemberIDs == [k \in 1..Len(srv.clients) |-> ID(tasks, srv.clients[k])]

NoTwoMembersShareAnID ==
    \A i, j \in 1..Len(srv.clients) : i # j => MemberIDs[i] # MemberIDs[j]

\* handler t is in this step between the Lock and the return of AddClient
AddClientReturns(t) == tasks[t].pc = "addLocked" /\ tasks'[t].pc # "addLocked"

\* what AddClient did for t is what is claimed of it
AddClientRejectsOrAppends(t) ==
    IF HasID(srv, tasks, ID(tasks, t))
    THEN /\ tasks'[t].err = "duplicate client ID"
         /\ srv'.clients = srv.clients
         /\ srv'.clientsUpdated = srv.clientsUpdated
    ELSE /\ tasks'[t].err = "none"
         /\ srv'.clients = Append(srv.clients, t)
         /\ srv'.clientsUpdated = 1

\* C11: AddClient returns the duplicate-ID error when a member has the ID of
\* the new client, and then leaves the registry and the pending
\* clientsUpdated notification as they were; otherwise it appends the client
\* and signals.  So no two members of the registry ever share an ID.
C11_NoDuplicateIDs ==
    /\ []NoTwoMembersShareAnID
    /\ [][\A t \in ClientTasks : AddClientReturns(t) => AddClientRejectsOrAppends(t)]_vars

\* a client was rejected for the ID of a member while no notification was
\* pending, and none is pending now
C11_Witness ==
    \E t \in ClientTasks :
        /\ tasks[t].err = "duplicate client ID"
        /\ HasID(srv, tasks, ID(tasks, t))
        /\ srv.clientsUpdated = 0

----------------------------------------------------------------------------
(* C12 *)

\* the connection of handler t is a member of the registry
Member(t) == \E k \in 1..Len(srv.clients) : srv.clients[k] = t

\* a name as the specification wants it: not empty, at most 16 code points
\* (and, as the code adds, valid UTF-8)
WellFormedName(name) ==
    /\ Len(name) >= 1
    /\ Len(name) <= 16
    /\ \A k \in 1..Len(name) : name[k] \in 1..4

\* C12 (as claimed): AddClient rejects a client whose ID is empty or longer
\* than 16 code points, so no member of the registry ever has such an ID.
C12_NoMemberWithInvalidID ==
    \A t \in ClientTasks : Member(t) => WellFormedName(ID(tasks, t))

\* C12 (amended): the name is tested where the connection is made, by
\* NewWebSocketClient, not by AddClient: a handler given a name that is not
\* well formed ends with the error before it calls AddClient, and every
\* client NewWebSocketClient returned has a well-formed name, as has every
\* member of the registry that came through it.
C12_NoCheckedMemberWithInvalidID ==
    \A t \in ClientTasks :
        /\ tasks[t].checked => WellFormedName(ID(tasks, t))
        /\ tasks[t].err = "invalid snake name"
             => ~WellFormedName(ID(tasks, t)) /\ ~Member(t) /\ tasks[t].pc = "done"
        /\ (tasks[t].pc # "idle" /\ ~WellFormedName(ID(tasks, t)))
             => tasks[t].err = "invalid snake name" \/ ~tasks[t].checked

\* a name of exactly 16 characters of three bytes each was admitted through
\* the handler, one of 17 characters was turned away
C12_Witness ==
    \E t, u \in ClientTasks :
        /\ Member(t) /\ tasks[t].checked
        /\ Len(ID(tasks, t)) = 16 /\ ByteLen(ID(tasks, t)) = 48
        /\ tasks[u].err = "invalid snake name" /\ Len(ID(tasks, u)) = 17

----------------------------------------------------------------------------
(* C13 *)

\* Run is in a round: between the first broadcast of the arena and the
\* round-over message
InRound == run.pc \in {"tick", "ticked"}

\* a holds the elements of b, each as often as b does
SameMembers(a, b) ==
    /\ Len(a) = Len(b)
    /\ \A t \in ClientTasks :
         Cardinality({k \in 1..Len(a) : a[k] = t})
            = Cardinality({k \in 1..Len(b) : b[k] = t})

\* the round that starts in this step has the registry of this moment as
\* its roster, every member once
RosterIsRegistry ==
    (run.pc = "afterGrace" /\ run'.pc = "tick")
        => /\ SameMembers(run'.roundClients, srv.clients)
           /\ \A i, j \in 1..Len(run'.roundClients) :
                i # j => run'.roundClients[i] # run'.roundClients[j]
           /\ Len(run'.gmem.states[run'.gameState].Snakes) = Len(run'.roundClients)

\* a step that leaves Run in the round or takes it to the round-over
\* message keeps the roster, its order and the number of snakes
RosterIsFixed ==
    (InRound /\ run'.pc \in {"tick", "ticked", "postRoundWait"})
        => /\ run'.roundClients = run.roundClients
           /\ Len(run'.gmem.states[run'.gameState].Snakes) = Len(run.roundClients)

\* C13: the roster of a round is the membership of the registry when the
\* wait before the round ends, every member once, those that joined during
\* the wait included; until the round is over neither the roster, nor its
\* order, nor the number of snakes changes, whatever AddClient and
\* RemoveClient do meanwhile.
C13_RosterFixedForTheRound == [][RosterIsRegistry /\ RosterIsFixed]_vars

\* a round of three ticked twice: its preparation message went to two
\* clients only, its slots are not in the order of joining, and a member
\* of the roster has left the registry since
C13_Witness ==
    /\ InRound /\ run.ticks = 2
    /\ Len(run.roundClients) = 3 /\ run.prepared = 2
    /\ run.roundClients # <<1, 2, 3>>
    /\ \E k \in 1..3 : ~Member(run.roundClients[k]) /\ tasks[run.roundClients[k]].pc = "done"

----------------------------------------------------------------------------
(* C14 *)

\* C14: after Stop, Run returns: once Run has received from the stopped
\* channel, at the wait of line 133 or at the wait of line 148, its loop is
\* over and the function has returned.
C14_RunReturnsOnceStopIsSeen == run.stopObserved => run.pc = "returned"

----------------------------------------------------------------------------
(* C15 *)

\* Run broadcasts a preparation message in this step
BroadcastsPreparation == run.pc \in {"top", "afterWaiting"} /\ run'.pc = "preRoundWait"

\* Run starts a round in this step: the roster, the arena, its broadcast
StartsRound == run.pc = "afterGrace" /\ run'.pc = "tick"

\* Run ticks in this step and broadcasts the arena
BroadcastsTick == run.pc = "tick" /\ run'.pc = "ticked"

\* C15: once Run has received from the stopped channel at one of its waits
\* it starts no round: it broadcasts no preparation message and no arena,
\* and it never is in a round again.
C15_NoRoundOnceStopIsSeen ==
    [][run.stopObserved => ~(BroadcastsPreparation \/ StartsRound \/ BroadcastsTick)]_vars

----------------------------------------------------------------------------
(* C16 *)

\* C16: Run is in a round only with a roster of MinimumClients at least,
\* and it broadcasts a preparation message, and waits for the round to
\* begin, only when the registry holds that many.
C16_MinimumForPreparationAndRound ==
    /\ InRound => Len(run.roundClients) >= srv.config.MinimumClients
    /\ run.did = "Preparing" => Len(run.to) >= srv.config.MinimumClients
    /\ run.pc = "preRoundWait" => run.prepared >= srv.config.MinimumClients

----------------------------------------------------------------------------
(* C17 *)

\* Run makes the test of line 155 in this step and finds too few clients
GraceEndsBelowMinimum ==
    /\ run.pc = "afterGrace"
    /\ Len(srv.clients) < srv.config.MinimumClients
    /\ (run'.pc # run.pc \/ srv'.crashed = "panic")

\* Run, back at the top of the loop from the test of line 155, takes the
\* lock and broadcasts
BroadcastsAfterGraceBelow ==
    run.pc = "top" /\ run.from = "graceBelow" /\ run'.pc # "top"

\* the test of line 155 failing, Run goes back to the top of the loop and
\* has broadcast nothing
BackToTheTopSilently ==
    GraceEndsBelowMinimum
        => /\ run'.pc = "top"
           /\ run'.did = run.did
           /\ srv'.lastMessage = srv.lastMessage
           /\ srv'.crashed # "panic"

\* an arena is broadcast only right after a preparation message or after
\* another arena of the round
ArenaOnlyAfterPreparation ==
    /\ StartsRound => run.did = "Preparing"
    /\ BroadcastsTick => run.did = "RoundState"

\* C17 (as claimed): when the test after the wait finds the registry below
\* the minimum, Run starts no round, and its next broadcast is a waiting
\* message to the remaining members.
C17_WaitingAfterGraceBelow ==
    [][/\ BackToTheTopSilently
       /\ ArenaOnlyAfterPreparation
       /\ BroadcastsAfterGraceBelow
            => run'.did = "Waiting" /\ run'.to = srv.clients]_vars

\* C17 (amended): when the test after the wait finds the registry below the
\* minimum, Run starts no round; its next broadcast goes to the members the
\* registry has when Run has taken the lock again, and is a waiting message
\* with their number if they are still fewer than the minimum, but a
\* preparation message if clients joined in between; no arena is broadcast
\* before that preparation message.
C17_WaitingOrPreparationAfterGraceBelow ==
    [][/\ BackToTheTopSilently
       /\ ArenaOnlyAfterPreparation
       /\ BroadcastsAfterGraceBelow
            => /\ run'.to = srv.clients
               /\ IF Len(srv.clients) < srv.config.MinimumClients
                  THEN /\ run'.did = "Waiting"
                       /\ srv'.lastMessage.kind = "Waiting"
                       /\ srv'.lastMessage.CurrentPlayers = Len(srv.clients)
                  ELSE /\ run'.did = "Preparing"
                       /\ srv'.lastMessage.kind = "Preparing"]_vars

\* Run waits for a round to begin, on a preparation message it broadcast
\* as the first thing after the test of line 155 had failed
C17_Witness ==
    /\ run.pc = "preRoundWait" /\ run.from = "graceBelow"
    /\ run.did = "Preparing" /\ Len(run.to) >= srv.config.MinimumClients

----------------------------------------------------------------------------
(* C18 *)

\* the callers of Stop that have executed close(s.stopped)
Closers == {t \in StopTasks : tasks[t].err = "closed"}

\* a call of Stop that finds isStopped set changes nothing and returns
LaterStopIsNoOp(t) ==
    (tasks[t].pc = "idle" /\ tasks'[t].pc # "idle" /\ srv.isStopped = 1)
        => srv' = srv /\ tasks'[t].pc = "done"

\* C18: Stop may be called any number of times, one call after the other or
\* at once: the stopped channel is closed exactly once, by the first call,
\* the other calls do nothing, and no call fails.
C18_StopClosesOnce ==
    /\ [](/\ Cardinality(Closers) <= 1
          /\ srv.crashed # "close of closed channel"
          /\ srv.stopped => Cardinality(Closers) = 1 /\ srv.isStopped = 1
          /\ (\A t \in StopTasks : tasks[t].pc = "done")
                => srv.stopped \/ ~ServerUp)
    /\ [][/\ \A t \in StopTasks : LaterStopIsNoOp(t)
          /\ srv.stopped => srv'.stopped]_vars

\* both callers of Stop have returned, the channel is closed, and one of
\* the two closed it
C18_Witness ==
    /\ \A t \in StopTasks : tasks[t].pc = "done"
    /\ Cardinality(Closers) = 1
    /\ srv.stopped /\ srv.crashed # "close of closed channel"

----------------------------------------------------------------------------
(* C19 *)

\* Stop has closed the channel while Run is in the wait before a round, the
\* timer of the wait still running
StoppedInPreRoundWait ==
    ServerUp /\ srv.stopped /\ run.pc = "preRoundWait" /\ run.timer = "running"

\* Stop has closed the channel while Run is in the pause after a round, the
\* timer of the pause still running
StoppedInPostRoundWait ==
    ServerUp /\ srv.stopped /\ run.pc = "postRoundWait" /\ run.timer = "running"

\* C19 (as claimed): the wait before a round and the pause after a round
\* both end at once when Stop is requested: Run need not wait for the timer.
C19_BothDelaysEndOnStop ==
    (StoppedInPreRoundWait \/ StoppedInPostRoundWait) => ENABLED RunStep

\* C19 (amended): the wait before a round ends at once when Stop is
\* requested; the pause after a round is a sleep, which Stop does not end:
\* Run goes on only when the timer of the pause has fired.
C19_OnlyPreRoundWaitEndsOnStop ==
    /\ StoppedInPreRoundWait => ENABLED RunPreRoundStopped
    /\ (ServerUp /\ run.pc = "postRoundWait" /\ run.timer = "running") => ~ENABLED RunStep
    /\ (ServerUp /\ run.pc = "postRoundWait" /\ run.timer = "fired") => ENABLED RunPostRoundWake

\* Run sleeps after a round, Stop has been called and has closed the
\* channel, the timer has not fired
C19_Witness ==
    /\ StoppedInPostRoundWait
    /\ run.did = "RoundOver"
    /\ \A t \in StopTasks : tasks[t].pc = "done"

----------------------------------------------------------------------------
(* C20 *)

\* viewer v is in s.viewers
Registered(v) == \E k \in 1..Len(srv.viewers) : srv.viewers[k] = v

\* the messages v received are the one that was the last when it was added
\* and the broadcasts after that one, each once, in their order
InOrderFromLast(v) ==
    \A k \in 1..Len(tasks[v].inbox) : tasks[v].inbox[k] = tasks[v].since + (k - 1)

\* what a viewer has received, at any moment
ViewerReceived(v) ==
    /\ Registered(v) <=> tasks[v].pc = "running"
    /\ tasks[v].pc # "idle" => Len(tasks[v].inbox) >= 1 /\ InOrderFromLast(v)
    /\ (Registered(v) /\ ~tasks[v].broken)
          => tasks[v].inbox[Len(tasks[v].inbox)] = srv.sent

\* a message is broadcast in this step
Broadcasts == srv'.sent = srv.sent + 1

\* connection t, whose writes do not fail, gets the message of this step
Gets(t) ==
    ~tasks[t].broken => tasks'[t].inbox = Append(tasks[t].inbox, srv'.sent)

\* the broadcast of this step reaches every viewer and every client it was
\* given whose write does not fail, and the message is the last message
DeliversToAll ==
    Broadcasts
        => /\ srv'.lastMessage.id = srv'.sent
           /\ \A k \in 1..Len(srv.viewers) : Gets(srv.viewers[k])
           /\ \A k \in 1..Len(run'.to) : Gets(run'.to[k])

\* a viewer is added in this step, and is sent the last message
AddedGetsLast(v) ==
    (tasks[v].pc = "idle" /\ tasks'[v].pc = "running")
        => tasks'[v].inbox = <<srv.lastMessage.id>>

\* a viewer that was removed receives nothing
RemovedGetsNothing(v) ==
    tasks[v].pc = "done" => tasks'[v].inbox = tasks[v].inbox

\* C20: a broadcast reaches every registered viewer and every client it is
\* given, also when writes to some of them fail, and becomes the last
\* message; a viewer gets the last message when it is added and from then
\* on every broadcast once and in order, until it is removed, whatever the
\* interleaving of AddViewer and RemoveViewer with the broadcasts.
C20_ViewersMissNothing ==
    /\ [](\A v \in ViewerTasks : ViewerReceived(v))
    /\ [][/\ DeliversToAll
          /\ \A v \in ViewerTasks : AddedGetsLast(v) /\ RemovedGetsNothing(v)]_vars

\* the viewer added first cannot be written to any more; the viewer after
\* it in s.viewers was added after the first broadcast and has its last
\* message and the three broadcasts since, the latest to two clients
C20_Witness ==
    /\ srv.viewers = <<MaxClientTasks + 1, MaxClientTasks + 2>>
    /\ tasks[MaxClientTasks + 1].broken
    /\ Len(tasks[MaxClientTasks + 1].inbox) < srv.sent
    /\ ~tasks[MaxClientTasks + 2].broken
    /\ tasks[MaxClientTasks + 2].since >= 1
    /\ tasks[MaxClientTasks + 2].inbox
          = <<srv.sent - 3, srv.sent - 2, srv.sent - 1, srv.sent>>
    /\ Len(run.to) = 2

----------------------------------------------------------------------------
(* C21 *)

\* lines 121-124: s.clientsMu.Lock(), clearClientsUpdated, and the test that
\* chooses the message Run is about to broadcast with the mutex held
RunLockTop ==
    /\ ServerUp
    /\ run.pc = "top"
    /\ ~srv.clientsMu
    /\ srv' = clearClientsUpdated([srv EXCEPT !.clientsMu = TRUE])
    /\ run' = [run EXCEPT !.pc = IF Len(srv.clients) < srv.config.MinimumClients
                                 THEN "sendWaiting" ELSE "sendPreparing"]
    /\ UNCHANGED <<bot, mem, cur, call, snap, other, tasks>>

\* lines 125-131: the waiting message is sent to every recipient, and only
\* then is clientsMu unlocked
RunSendWaiting ==
    /\ ServerUp
    /\ run.pc = "sendWaiting"
    /\ MayBroadcast
    /\ \E s \in {Wait(srv, tasks, run)} :
         srv' = s.srv /\ tasks' = s.tasks /\ run' = s.run
    /\ UNCHANGED <<bot, mem, cur, call, snap, other>>

\* lines 143-146: the preparation message is sent to every recipient, and
\* only then is clientsMu unlocked
RunSendPreparing ==
    /\ ServerUp
    /\ run.pc = "sendPreparing"
    /\ MayBroadcast
    /\ \E s \in {Prepare(srv, tasks, run)} :
         srv' = s.srv /\ tasks' = s.tasks /\ run' = s.run
    /\ UNCHANGED <<bot, mem, cur, call, snap, other>>

\* Run with the top of its loop in two steps, and the handlers of the players
LockNext ==
    \/ RunLockTop
    \/ RunSendWaiting
    \/ RunSendPreparing
    \/ RunWaitingUpdated
    \/ RunPreRoundTimer
    \/ RunAfterGrace
    \/ RunTick
    \/ RunNotCompleted
    \/ RunRoundOver
    \/ RunPostRoundWake
    \/ TimerFires
    \/ \E t \in ClientTasks : PlayerStep(t)

LockSpec == Init /\ [][LockNext]_vars

\* Run is inside a call of s.broadcast: its sends have not all been made
BroadcastInFlight == run.pc \in {"sendWaiting", "sendPreparing"}

\* a handler is at s.clientsMu.Lock() of AddClient or of RemoveClient
JoinOrLeaveCalled(t) == tasks[t].pc \in {"add", "remove"}

\* C21: in no reachable state does Run hold the registry mutex (clientsMu)
\* while one of its broadcasts is being sent, so that a handler that has
\* called AddClient or RemoveClient during a broadcast can take the mutex
C21_NoBroadcastUnderRegistryLock ==
    /\ ~(BroadcastInFlight /\ srv.clientsMu)
    /\ \A t \in ClientTasks :
          BroadcastInFlight /\ JoinOrLeaveCalled(t)
             => ENABLED (AddClientLock(t) \/ RemoveClientLock(t))

----------------------------------------------------------------------------
(* C22 *)

\* exactly one of the four fields of the Message is set
OneVariant(msg) == msg.kind \in {"Waiting", "Preparing", "RoundState", "RoundOver"}

\* the connection of t is written a message in this step
Delivered(t) == Len(tasks'[t].inbox) > Len(tasks[t].inbox)

\* the message written to t in this step: s.lastMessage for a viewer being
\* added, the message of line 229 for a client being added, and otherwise
\* the message of the broadcast
MessageDelivered(t) ==
    IF t \in ViewerTasks /\ tasks[t].pc = "idle" THEN srv.lastMessage
    ELSE IF t \in ClientTasks /\ tasks[t].pc = "addLocked"
         THEN WaitingMessage(0, 1, srv.config.MinimumClients)
         ELSE srv'.lastMessage

\* C22: every message written to a client or to a viewer, by a broadcast, by
\* AddViewer or by AddClient, has exactly one of its four variants set; a
\* viewer added before the first broadcast is not written an empty message
C22_OneVariantPerMessage ==
    [][\A t \in ClientTasks \cup ViewerTasks :
          Delivered(t) => OneVariant(MessageDelivered(t))]_vars

\* the same for the messages of broadcasts and of AddClient alone
C22_BroadcastsHaveOneVariant ==
    [][\A t \in ClientTasks \cup ViewerTasks :
          Delivered(t) /\ ~(t \in ViewerTasks /\ tasks[t].pc = "idle")
             => OneVariant(MessageDelivered(t))]_vars

----------------------------------------------------------------------------
(* C23 *)

\* Run has broadcast the RoundOverMessage of a round and has not yet left
\* the round: roundClients and gameState are those of the round
RoundOverSent == run.pc = "postRoundWait" /\ srv.lastMessage.kind = "RoundOver"

\* the slots whose snake is alive in the final arena of the round
AliveSlotsOfRound ==
    {i \in 1..Len(run.roundClients) :
        run.gmem.snakes[run.gmem.states[run.gameState].Snakes[i]].Alive}

\* the text a value is written as
Written(v) == ToString(v)

\* C23: the RoundOverMessage of a round has a winner exactly when one snake
\* is alive in the final arena of the round, and the winner is then the ID
\* of the client of the roster in the slot of that snake
C23_WinnerIsTheIDOfTheSurvivor ==
    RoundOverSent =>
        /\ srv.lastMessage.Winner # <<>> <=> Cardinality(AliveSlotsOfRound) = 1
        /\ \A i \in AliveSlotsOfRound :
              Cardinality(AliveSlotsOfRound) = 1 =>
                 Written(srv.lastMessage.Winner)
                    = Written(<<ID(tasks, run.roundClients[i])>>)

\* what the message carries: the number of the slot of the survivor, slots
\* counted from 0
C23_WinnerIsTheSlotOfTheSurvivor ==
    RoundOverSent =>
        /\ srv.lastMessage.Winner # <<>> <=> Cardinality(AliveSlotsOfRound) = 1
        /\ \A i \in AliveSlotsOfRound :
              Cardinality(AliveSlotsOfRound) = 1 => srv.lastMessage.Winner = <<i - 1>>

\* a round has ended with one survivor
C23_Witness == RoundOverSent /\ Cardinality(AliveSlotsOfRound) = 1

----------------------------------------------------------------------------
(* C24 *)

\* the last broadcast of Run was a RoundStateMessage, built from gameState
RoundStateSent ==
    run.pc \in {"tick", "ticked"} /\ srv.lastMessage.kind = "RoundState"

\* the arena of the round, read from the heap
RoundArena == StateVal(run.gmem, run.gameState)

\* the message has one player per slot of the roster, in the order of the
\* slots, with the ID of the client of the slot and the pieces of its snake
\* when that snake is alive, none otherwise; width, height and apple are
\* those of the arena
MessageShowsArena(msg, roster, arena) ==
    /\ Len(msg.Players) = Len(roster)
    /\ Len(arena.Snakes) = Len(roster)
    /\ \A i \in 1..Len(roster) :
          /\ msg.Players[i].Name = ID(tasks, roster[i])
          /\ msg.Players[i].Pieces = IF arena.Snakes[i].Alive
                                     THEN arena.Snakes[i].Pieces ELSE <<>>
    /\ msg.Width = arena.Width
    /\ msg.Height = arena.Height
    /\ msg.Apple = arena.Apple

\* the message broadcast at the last tick shows the arena that tick produced
ShowsArenaWhenSent == RoundStateSent => MessageShowsArena(srv.lastMessage, run.roundClients, RoundArena)

\* the next tick leaves the arena the last message was built from as it
\* was, on the heap Next has worked on: the message, which holds copies of
\* the pieces (make and copy), still shows it
StillShowsArenaAfterNextTick ==
    RoundStateSent /\ run'.ticks = run.ticks + 1 =>
        MessageShowsArena(srv.lastMessage, run.roundClients,
            StateVal(Next(run.gmem, run.gameState,
                          Directions(tasks, run.roundClients)).mem,
                     run.gameState))

\* C24: every RoundStateMessage broadcast has one player per slot of the
\* roster in slot order, player i with the ID of roster member i and with
\* the pieces of snake i when it is alive and no pieces when it is not, and
\* the width, height and apple of the arena; a later tick does not alter it
C24_RoundStateMessageShowsArena ==
    []ShowsArenaWhenSent /\ [][StillShowsArenaAfterNextTick]_vars

\* a RoundStateMessage has been broadcast for an arena with a dead snake
C24_Witness ==
    /\ RoundStateSent
    /\ run.ticks >= 1
    /\ \E i \in 1..Len(run.roundClients) : ~RoundArena.Snakes[i].Alive
    /\ \E i \in 1..Len(run.roundClients) :
          RoundArena.Snakes[i].Alive /\ Len(RoundArena.Snakes[i].Pieces) >= 2

----------------------------------------------------------------------------
(* C25 *)

\* the directions a connection may send, one message after the other
SteerChoices == {DirectionNorth, DirectionEast, DirectionSouth}

\* the connections that send any number of direction messages
Helmsmen == {1, 3}

\* WebSocketClient.Run: one more direction message is read and stored
Steer(t) ==
    /\ ServerUp
    /\ t \in Helmsmen
    /\ tasks[t].pc = "running"
    /\ \E d \in SteerChoices \ {tasks[t].direction} :
         tasks' = [tasks EXCEPT ![t].direction = d]
    /\ UNCHANGED <<bot, mem, cur, call, snap, other, srv, run>>

\* Run and the handlers of players that stay, whose connections steer at
\* any time
SteerNext ==
    \/ RunLoopTop
    \/ RunWaitingUpdated
    \/ RunPreRoundTimer
    \/ RunAfterGrace
    \/ RunTick
    \/ RunNotCompleted
    \/ RunRoundOver
    \/ RunPostRoundWake
    \/ TimerFires
    \/ \E t \in ClientTasks :
         \/ ConnectPlayer(t)
         \/ AddClientLock(t)
         \/ AddClientCall(t)
         \/ Steer(t)

SteerSpec == Init /\ [][SteerNext]_vars

\* this step is a tick of the round
TickTaken == run.pc = "tick" /\ run'.pc = "ticked"

\* the cell the connection of roster member i last wrote, North until it
\* writes
LastWritten(i) == tasks[run.roundClients[i]].direction

\* every snake alive before the tick has moved its head by the direction
\* its roster member wrote last
HeadsFollowLastWritten ==
    \A i \in 1..Len(run.roundClients) :
        StateVal(run.gmem, run.gameState).Snakes[i].Alive =>
            StateVal(run'.gmem, run'.gameState).Snakes[i].Pieces[1]
               = NextLocation(StateVal(run.gmem, run.gameState).Snakes[i].Pieces[1],
                              LastWritten(i))

\* the connection of t stores a direction in this step
Writes(t) == tasks'[t].direction # tasks[t].direction

\* nothing but the direction cell of t changes: no phase, no broadcast
OnlyTheCellChanges(t) ==
    /\ srv' = srv
    /\ run' = run
    /\ tasks' = [tasks EXCEPT ![t].direction = tasks'[t].direction]

\* C25: at every tick the direction used for slot i is the one the
\* connection of roster member i wrote last (North if it wrote none), read
\* from its cell as it is at the tick; a direction written at any time, in
\* a round or not, by a roster member or not, changes only the cell of that
\* connection
C25_TickUsesLastWrittenDirection ==
    /\ [][TickTaken => HeadsFollowLastWritten]_vars
    /\ [][\A t \in ClientTasks : Writes(t) => OnlyTheCellChanges(t)]_vars

\* a round has made a tick in which a snake went East as its connection had
\* written before the round, while a connection that is not of the roster
\* has written a direction too
C25_Witness ==
    /\ run.pc = "ticked"
    /\ run.ticks = 1
    /\ \E i \in 1..Len(run.roundClients) :
          /\ LastWritten(i) = DirectionEast
          /\ StateVal(run.gmem, run.gameState).Snakes[i].Pieces[1].Y
                = StateVal(run.gmem, run.gameState).Snakes[i].Pieces[2].Y
    /\ \E t \in ClientTasks :
          /\ \A i \in 1..Len(run.roundClients) : run.roundClients[i] # t
          /\ tasks[t].direction # DirectionNorth

----------------------------------------------------------------------------
(* C26 *)

\* AddClient or RemoveClient, called by the handler t, changes the registry
\* in this step and signals it
Signals(t) ==
    /\ tasks[t].pc \in {"addLocked", "removeLocked"}
    /\ srv'.clients # srv.clients

\* Run leaves the select of line 133 by the case of line 134
WakesUp == run.pc = "waiting" /\ run'.pc = "top"

\* C26: at most one notification of a change of the registry is pending at
\* any time; AddClient and RemoveClient complete and leave one pending
\* whether or not one was pending already; and a wake-up of Run takes the
\* pending notification and leaves none, however many changes were
\* signalled since the last one was taken
C26_SignalCoalesces ==
    /\ [](srv.clientsUpdated \in {0, 1})
    /\ [][\A t \in ClientTasks :
             Signals(t) => /\ srv'.clientsUpdated = 1
                           /\ tasks'[t].pc \in {"running", "done"}]_vars
    /\ [][WakesUp => srv.clientsUpdated = 1 /\ srv'.clientsUpdated = 0]_vars

\* Run waits after a waiting message sent to no client, and two clients have
\* been added since: two signals, one notification pending
C26_Witness ==
    /\ run.pc = "waiting"
    /\ run.to = <<>>
    /\ Len(srv.clients) = 2
    /\ srv.clientsUpdated = 1

----------------------------------------------------------------------------
(* WebSocketBot: the reader goroutine, the receivers of its channels and *)
(* the callers of BotTurn.Move                                            *)

\* bounds: the rounds the reader creates, the turns it hands over, and the
\* calls of Move each caller makes
MaxBotRounds == 2
MaxBotTurns == 3
MaxMoveCalls == 2

\* &BotRound{turns: make(chan *BotTurn), winner: make(chan string, 1)}
NewBotRound == [died |-> FALSE, turns |-> "open", winner |-> "open", won |-> <<>>]

\* &BotTurn{RoundStateMessage: ..., r: currentRound}
NewBotTurn(r) == [r |-> r, moved |-> 0, written |-> 0]

\* close(ch) for the channel in state ch: its new state, or the panic
Closed(ch) == IF ch = "closed" THEN "panic" ELSE "closed"

\* close(currentRound.turns)
CloseTurns(b) ==
    IF Closed(b.made[b.currentRound].turns) = "panic"
    THEN [b EXCEPT !.crashed = "close of closed channel"]
    ELSE [b EXCEPT !.made[b.currentRound].turns = "closed"]

\* close(currentRound.winner)
CloseWinner(b) ==
    IF Closed(b.made[b.currentRound].winner) = "panic"
    THEN [b EXCEPT !.crashed = "close of closed channel"]
    ELSE [b EXCEPT !.made[b.currentRound].winner = "closed"]

\* if !currentRound.died { close(currentRound.turns) }
CloseTurnsUnlessDied(b) ==
    IF b.crashed # "no" \/ b.made[b.currentRound].died THEN b ELSE CloseTurns(b)

\* the names of the bot and of another player
BotName == <<1>>

OtherName == <<2>>

\* a RoundStateMessage in which the player of the bot has pieces, or none
RoundStateWith(own) == [kind |-> "RoundState", own |-> own]

\* the reader may be given one more round, one more turn
MoreRounds(b) == Len(b.made) < MaxBotRounds

MoreTurns(b) == Len(b.turns) < MaxBotTurns

\* what ReadJSON can return next, the server being at b.net: in the lobby
\* the messages of the lobby and the first arena of a round, in which every
\* snake has its head; in a round the arenas, with or without pieces for the
\* snake of the bot (none for good once it is dead), and the end of the
\* round, which the bot can only win alive
Incoming(b) ==
    IF b.net = "lobby"
    THEN {[kind |-> "Waiting"], [kind |-> "Preparing"]}
         \cup (IF MoreRounds(b) /\ MoreTurns(b) THEN {RoundStateWith("pieces")} ELSE {})
    ELSE {RoundStateWith("none")}
         \cup (IF b.net = "alive" /\ MoreTurns(b) THEN {RoundStateWith("pieces")} ELSE {})
         \cup {[kind |-> "RoundOver", Winner |-> w] :
                  w \in {<<>>, <<OtherName>>}
                        \cup (IF b.net = "alive" THEN {<<BotName>>} ELSE {})}

\* the server after it has sent msg
NetAfter(b, msg) ==
    IF msg.kind = "RoundState" THEN (IF msg.own = "pieces" THEN "alive" ELSE "dead")
    ELSE IF msg.kind = "RoundOver" THEN "lobby"
    ELSE b.net

\* the errors of ReadJSON
ReadErrors == {"unexpected EOF", "closed"}

\* lines 87-104, the round being there: nothing for a round the bot died
\* in; otherwise the turn is to be sent on turns when the player of the bot
\* has pieces, and the round is marked died and turns closed when not
HandleRoundState(b, msg) ==
    IF b.made[b.currentRound].died THEN [b EXCEPT !.pc = "read"]
    ELSE IF msg.own = "pieces" THEN [b EXCEPT !.pc = "sendTurn", !.msg = msg]
    ELSE [CloseTurns([b EXCEPT !.made[b.currentRound].died = TRUE])
             EXCEPT !.pc = "read"]

\* lines 78-86: the first arena of a round makes the BotRound, which is to
\* be sent on w.rounds
ReadRoundState(b, msg) ==
    IF b.currentRound = 0
    THEN [b EXCEPT !.made = Append(@, NewBotRound),
                   !.currentRound = Len(b.made) + 1,
                   !.pc = "sendRound", !.msg = msg]
    ELSE HandleRoundState(b, msg)

\* lines 106-109: the winner, if any, is sent on winner (capacity 1), which
\* is then closed
SendWinner(b, msg) ==
    CloseWinner([b EXCEPT !.made[b.currentRound].won = msg.Winner])

\* lines 105-113: the end of the round
ReadRoundOver(b, msg) ==
    IF b.currentRound = 0 THEN [b EXCEPT !.crashed = "nil pointer dereference"]
    ELSE [CloseTurnsUnlessDied(SendWinner(b, msg)) EXCEPT !.currentRound = 0]

\* lines 75-116: the switch on the message read
Dispatch(b, msg) ==
    IF msg.kind = "RoundState" THEN ReadRoundState(b, msg)
    ELSE IF msg.kind = "RoundOver" THEN ReadRoundOver(b, msg)
    ELSE b

\* lines 60-68: what the reader closes for an error that is not
\* io.ErrUnexpectedEOF
CloseOnError(b, e) ==
    IF b.currentRound # 0
    THEN [CloseTurnsUnlessDied(CloseWinner(b)) EXCEPT !.err = e]
    ELSE [b EXCEPT !.err = e]

\* lines 58-72 and 54: ReadJSON fails with e; the reader leaves its loop and
\* the deferred close(w.rounds) runs
ReaderFails(b, e) ==
    [(IF e # "unexpected EOF" THEN CloseOnError(b, e) ELSE b)
        EXCEPT !.pc = "done", !.rounds = Closed(b.rounds)]

\* the bot has not died of a panic
BotUp == bot.crashed = "no"

\* line 58: ReadJSON returns a message
BotReads ==
    /\ BotUp
    /\ bot.pc = "read"
    /\ \E msg \in Incoming(bot) :
         bot' = Dispatch([bot EXCEPT !.net = NetAfter(bot, msg)], msg)
    /\ UNCHANGED <<mem, cur, call, snap, other, srv, run, tasks>>

\* line 58: ReadJSON returns an error
BotReadFails ==
    /\ BotUp
    /\ bot.pc = "read"
    /\ \E e \in ReadErrors : bot' = ReaderFails(bot, e)
    /\ UNCHANGED <<mem, cur, call, snap, other, srv, run, tasks>>

\* line 85: a receiver takes the BotRound from Rounds(), and the reader
\* goes on with the arena
BotRoundTaken ==
    /\ BotUp
    /\ bot.pc = "sendRound"
    /\ bot' = HandleRoundState(bot, bot.msg)
    /\ UNCHANGED <<mem, cur, call, snap, other, srv, run, tasks>>

\* line 93: a receiver takes the BotTurn from Turns()
BotTurnTaken ==
    /\ BotUp
    /\ bot.pc = "sendTurn"
    /\ bot' = [bot EXCEPT !.pc = "read",
                          !.turns = Append(@, NewBotTurn(bot.currentRound))]
    /\ UNCHANGED <<mem, cur, call, snap, other, srv, run, tasks>>

\* a CompareAndSwapInt32 that always reports success
CompareAndSwapInt32Always(moved) == [moved |-> 1, swapped |-> TRUE]

\* atomic.CompareAndSwapInt32(&t.moved, 0, 1) -> [moved, swapped]
CompareAndSwapInt32(moved) ==
    IF moved = 0 THEN [moved |-> 1, swapped |-> TRUE]
    ELSE [moved |-> moved, swapped |-> FALSE]

\* Move, line 176: the caller c calls Move on the turn k; it returns the
\* error "already moved" at once when the swap fails
MoveSwap(c, k) ==
    /\ BotUp
    /\ bot.movers[c].pc = "idle"
    /\ bot.movers[c].calls < MaxMoveCalls
    /\ k \in 1..Len(bot.turns)
    /\ bot' = [bot EXCEPT
                 !.turns[k].moved = CompareAndSwapInt32(@).moved,
                 !.movers[c] =
                    IF CompareAndSwapInt32(bot.turns[k].moved).swapped
                    THEN [@ EXCEPT !.pc = "write", !.turn = k, !.calls = @ + 1]
                    ELSE [@ EXCEPT !.turn = k, !.calls = @ + 1,
                                   !.refused = @ + 1]]
    /\ UNCHANGED <<mem, cur, call, snap, other, srv, run, tasks>>

\* Move, lines 180-185: the direction message is written to the connection
MoveWrite(c) ==
    /\ BotUp
    /\ bot.movers[c].pc = "write"
    /\ bot' = [bot EXCEPT !.turns[bot.movers[c].turn].written = @ + 1,
                          !.movers[c].pc = "idle"]
    /\ UNCHANGED <<mem, cur, call, snap, other, srv, run, tasks>>

\* the reader of a bot, the receivers of its channels, the callers of Move
BotNext ==
    \/ BotReads
    \/ BotReadFails
    \/ BotRoundTaken
    \/ BotTurnTaken
    \/ \E c \in Movers : MoveWrite(c) \/ \E k \in 1..MaxBotTurns : MoveSwap(c, k)

BotSpec == Init /\ [][BotNext]_vars

----------------------------------------------------------------------------
(* C27 *)

\* the Turns channel of the k-th round of the bot is closed
TurnsClosed(k) == bot.made[k].turns = "closed"

\* no channel of the bot has been closed twice
ClosedOnceAtMost == bot.crashed # "close of closed channel" /\ bot.rounds # "panic"

\* the RoundOverMessage of every round but the current one has arrived, and
\* the Turns of those rounds are closed
ClosedWhenRoundOver ==
    \A k \in 1..Len(bot.made) : k # bot.currentRound => TurnsClosed(k)

\* the Turns of a round in which the snake of the bot was reported without
\* pieces are closed
ClosedWhenDied ==
    \A k \in 1..Len(bot.made) : bot.made[k].died => TurnsClosed(k)

\* the reader has returned: the connection is closed
ConnectionClosed == bot.pc = "done"

\* C27: the Turns channel of a BotRound is closed, once, when the
\* RoundOverMessage of the round arrives, when the snake of the bot is
\* reported with no pieces, and when the connection is closed by whatever
\* error of the read, io.ErrUnexpectedEOF included; the Rounds channel is
\* closed when the connection is closed
C27_TurnsClosedInEveryCase ==
    /\ ClosedOnceAtMost
    /\ ClosedWhenRoundOver
    /\ ClosedWhenDied
    /\ ConnectionClosed =>
          /\ bot.rounds = "closed"
          /\ \A k \in 1..Len(bot.made) : TurnsClosed(k)

\* the same, the Turns of the current round being left aside when the read
\* ended with io.ErrUnexpectedEOF (no error is recorded then)
C27_TurnsClosedUnlessUnexpectedEOF ==
    /\ ClosedOnceAtMost
    /\ ClosedWhenRoundOver
    /\ ClosedWhenDied
    /\ ConnectionClosed =>
          /\ bot.rounds = "closed"
          /\ \A k \in 1..Len(bot.made) : bot.err # "none" => TurnsClosed(k)

\* the connection was closed by an error in a round the bot was alive in,
\* after an earlier round had ended
C27_Witness ==
    /\ ConnectionClosed
    /\ bot.err # "none"
    /\ bot.currentRound = 2
    /\ ~bot.made[2].died
    /\ bot.made[1].died

----------------------------------------------------------------------------
(* C28 *)

\* the callers that have won the swap on the turn k and are about to write
Writing(k) == {c \in Movers : bot.movers[c].pc = "write" /\ bot.movers[c].turn = k}

\* the caller c enters Move for the turn k in this step
CallsMove(c, k) ==
    /\ bot'.movers[c].calls = bot.movers[c].calls + 1
    /\ bot'.movers[c].turn = k

\* the call returns the error "already moved" and writes nothing
Refused(c) ==
    /\ bot'.movers[c].refused = bot.movers[c].refused + 1
    /\ bot'.movers[c].pc = "idle"
    /\ \A j \in 1..Len(bot.turns) : bot'.turns[j].written = bot.turns[j].written

\* C28: for every BotTurn at most one direction message is written, by the
\* first call of Move on it; every later call, from the same caller or from
\* another, at the same time or afterwards, returns the error "already
\* moved" and writes nothing
C28_OneMovePerTurn ==
    /\ [](\A k \in 1..Len(bot.turns) :
             bot.turns[k].written + Cardinality(Writing(k)) <= 1)
    /\ [][\A c \in Movers : \A k \in 1..Len(bot.turns) :
             CallsMove(c, k) =>
                IF bot.turns[k].moved = 0
                THEN bot'.movers[c].pc = "write"
                ELSE Refused(c)]_vars

\* one message has been written for a turn, and both callers, the one that
\* wrote it included, have been refused on that turn as well
C28_Witness ==
    \E k \in 1..Len(bot.turns) :
        /\ bot.turns[k].written = 1
        /\ \A c \in Movers : bot.movers[c].turn = k /\ bot.movers[c].refused >= 1

----------------------------------------------------------------------------
(* C29 *)

\* the slots whose snake is alive in the arena value sv
AliveSlots(sv) == {i \in 1..Len(sv.Snakes) : sv.Snakes[i].Alive}

\* a snake dead in the input of the last call is, in the result, dead with
\* the pieces and the Length it had
DeadAreFrozen == \A i \in Slots : ~AliveIn(i) => Out.Snakes[i] = In.Snakes[i]

\* no snake is alive in the result that was dead in the input
NoneRevived == \A i \in Slots : AliveOut(i) => AliveIn(i)

\* along the arenas of a game, in the order they were returned, the alive
\* snakes of each are among those of the one before
AliveOnlyDecrease ==
    \A a \in 1..(Len(snap) - 1) : AliveSlots(snap[a + 1]) \subseteq AliveSlots(snap[a])

\* C29: a snake that is dead in the input of Next is dead in the result and
\* has the same pieces and the same Length, whatever direction is given for
\* its slot; no snake dead in the input is alive in the result, so that the
\* number of alive snakes never increases from tick to tick
C29_DeadStayDeadAndFrozen ==
    /\ NextReturned => DeadAreFrozen /\ NoneRevived
    /\ AliveOnlyDecrease

\* Next has returned for an input with a dead snake whose slot was given
\* South or no direction at all, in a tick in which another snake died
C29_Witness ==
    /\ NextReturned
    /\ \E i \in Slots : ~AliveIn(i) /\ call.dirs[i] \in {DirectionSouth, DirectionInvalid}
    /\ \E i \in Slots : ~AliveIn(i) /\ call.dirs[i] = DirectionInvalid
    /\ \E j \in Slots : AliveIn(j) /\ ~AliveOut(j)

----------------------------------------------------------------------------
(* C30 *)

\* 1 <= len(Pieces) <= Length for every snake of the arena value sv
PiecesWithinLength(sv) ==
    \A i \in 1..Len(sv.Snakes) :
        /\ 1 <= Len(sv.Snakes[i].Pieces)
        /\ Len(sv.Snakes[i].Pieces) <= sv.Snakes[i].Length

\* 1 if the head of slot i reached the apple of the input in the last call
AppleEaten(i) == IF NextHead(i) = In.Apple THEN 1 ELSE 0

\* the Length of no snake is smaller in the result than in the input
LengthNeverDecreases ==
    \A i \in Slots : Out.Snakes[i].Length >= In.Snakes[i].Length

\* an alive snake has its Length raised by the apple it ate, and one piece
\* more exactly when it had fewer pieces than that Length
GrowsByOneBelowLength ==
    \A i \in Slots : AliveIn(i) =>
        /\ Out.Snakes[i].Length = In.Snakes[i].Length + AppleEaten(i)
        /\ Len(Out.Snakes[i].Pieces) =
              IF Len(In.Snakes[i].Pieces) < In.Snakes[i].Length + AppleEaten(i)
              THEN Len(In.Snakes[i].Pieces) + 1
              ELSE Len(In.Snakes[i].Pieces)

\* C30: in every arena returned by NewState or by Next every snake has at
\* least one piece and at most Length pieces; across a call of Next that
\* returns, no Length decreases, and an alive snake gets exactly one more
\* piece if it has fewer pieces than its Length with the apple eaten in this
\* tick counted, and keeps its number of pieces otherwise
C30_PiecesWithinLengthAndGrowth ==
    /\ \A a \in 1..Len(snap) : PiecesWithinLength(snap[a])
    /\ NextReturned => /\ PiecesWithinLength(Out)
                       /\ LengthNeverDecreases
                       /\ GrowsByOneBelowLength

\* Next has returned for an arena in which one snake with as many pieces as
\* its Length reached the apple and got one more piece, while another alive
\* snake with as many pieces as its Length kept its number of pieces
C30_Witness ==
    /\ NextReturned
    /\ \E i, j \in Slots :
         /\ AliveIn(i) /\ AliveIn(j)
         /\ Len(In.Snakes[i].Pieces) = In.Snakes[i].Length
         /\ AppleEaten(i) = 1
         /\ Len(Out.Snakes[i].Pieces) = Len(In.Snakes[i].Pieces) + 1
         /\ Len(In.Snakes[j].Pieces) = In.Snakes[j].Length
         /\ AppleEaten(j) = 0
         /\ Len(Out.Snakes[j].Pieces) = Len(In.Snakes[j].Pieces)

\* Next has returned for an arena in which an alive snake with fewer pieces
\* than its Length went a step without reaching the apple and got one more
C30_WitnessGrowing ==
    /\ NextReturned
    /\ \E i \in Slots :
         /\ AliveIn(i)
         /\ Len(In.Snakes[i].Pieces) < In.Snakes[i].Length
         /\ AppleEaten(i) = 0
         /\ Len(Out.Snakes[i].Pieces) = Len(In.Snakes[i].Pieces) + 1

----------------------------------------------------------------------------
(* C31 *)

\* does the alive snake i of the arena value sv have a piece at l
AlivePieceAt(sv, i, l) ==
    /\ sv.Snakes[i].Alive
    /\ \E k \in 1..Len(sv.Snakes[i].Pieces) : sv.Snakes[i].Pieces[k] = l

\* the apple of the arena value sv is one cell of the board, and no alive
\* snake has a piece on it
AppleOnFreeCell(sv) ==
    /\ sv.Apple \in Board(sv.Width, sv.Height)
    /\ \A i \in 1..Len(sv.Snakes) : ~AlivePieceAt(sv, i, sv.Apple)

\* C31: every arena returned by NewState or by Next has its one apple (the
\* Apple field holds a single location) on a cell inside the bounds on
\* which no alive snake has a piece
C31_AppleInsideOnFreeCell ==
    /\ \A a \in 1..Len(snap) : AppleOnFreeCell(snap[a])
    /\ NextReturned => AppleOnFreeCell(Out)

\* Next has returned for a tick in which a snake reached the apple and
\* stayed alive, so that its head is on the cell the apple has left
C31_Witness ==
    /\ NextReturned
    /\ \E i \in Slots : /\ AliveIn(i) /\ AliveOut(i)
                        /\ NextHead(i) = In.Apple
                        /\ Out.Snakes[i].Pieces[1] = In.Apple
    /\ Out.Apple # In.Apple

----------------------------------------------------------------------------
(* Games of two snakes over three ticks, long enough for a snake of three
   pieces to turn back onto itself *)

LongMaxTicks == 3
LongMaxInitLen == 3

LongConfigs ==
    [Width : 2..MaxWidth, Height : 1..MaxHeight,
     SnakeCount : {2}, InitialSnakeLength : 1..LongMaxInitLen]

LongNewStateCall ==
    /\ call.op = "none"
    /\ \E cfg \in LongConfigs : Called("NewState", cfg, <<>>, NewState(mem, cfg))
    /\ UNCHANGED other

LongNextCall ==
    /\ cur # 0
    /\ call.outcome = "returned"
    /\ Len(mem.states) <= LongMaxTicks
    /\ \E dirs \in DirVectors(mem, cur) :
         Called("Next", call.cfg, dirs, Next(mem, cur, dirs))
    /\ UNCHANGED other

LongNext == LongNewStateCall \/ LongNextCall

LongSpec == Init /\ [][LongNext]_vars

----------------------------------------------------------------------------
(* C32 *)

\* the pieces of the alive snakes of the arena value sv, as <<slot, index>>
AlivePieces(sv) ==
    {p \in (1..Len(sv.Snakes)) \X (1..(LongMaxInitLen + LongMaxTicks + 1)) :
        sv.Snakes[p[1]].Alive /\ p[2] <= Len(sv.Snakes[p[1]].Pieces)}

PieceAt(sv, p) == sv.Snakes[p[1]].Pieces[p[2]]

\* every piece of an alive snake is on the board, and no two pieces of
\* alive snakes, of one snake or of two, are on the same cell
AliveSnakesApart(sv) ==
    /\ \A p \in AlivePieces(sv) : PieceAt(sv, p) \in Board(sv.Width, sv.Height)
    /\ \A p, q \in AlivePieces(sv) : p # q => PieceAt(sv, p) # PieceAt(sv, q)

\* C32: in every arena returned by NewState or by Next all pieces of all
\* alive snakes are inside the bounds and on pairwise distinct cells: no
\* two alive snakes overlap and no alive snake overlaps itself
C32_AliveSnakesInsideAndApart ==
    /\ \A a \in 1..Len(snap) : AliveSnakesApart(snap[a])
    /\ NextReturned => AliveSnakesApart(Out)

\* Next has returned for a tick in which a snake of three pieces turned
\* onto the cell its second piece was on, and is dead in the result
C32_Witness ==
    /\ NextReturned
    /\ \E i \in Slots : /\ AliveIn(i)
                        /\ Len(In.Snakes[i].Pieces) >= 3
                        /\ NextHead(i) = In.Snakes[i].Pieces[2]
                        /\ ~AliveOut(i)

\* Next has returned for a tick in which the two snakes went to the same
\* cell of the board, and both are dead in the result
C32_WitnessSameLocation ==
    /\ NextReturned
    /\ AliveIn(1) /\ AliveIn(2)
    /\ NextHead(1) = NextHead(2)
    /\ NextHead(1) \in Board(In.Width, In.Height)
    /\ ~AliveOut(1) /\ ~AliveOut(2)

----------------------------------------------------------------------------
(* C33 *)

\* the other slots whose snake was alive in the input of the last call
AliveOthers(i) == {j \in Slots \ {i} : AliveIn(j)}

\* the body cells (all pieces but the head) that the snake of slot j, alive
\* in the input, has after its shift
ShiftedBody(j) == {Out.Snakes[j].Pieces[k] : k \in 2..Len(Out.Snakes[j].Pieces)}

\* the ways the snake of slot i can die in the last call, each of them
\* against the wall or against a snake that was alive in the input
HitsWall(i) == Outside(NextHead(i), In)

HitsHead(i) == \E j \in AliveOthers(i) : NextHead(j) = NextHead(i)

SwapsHeads(i) ==
    \E j \in AliveOthers(i) : /\ NextHead(j) = In.Snakes[i].Pieces[1]
                              /\ NextHead(i) = In.Snakes[j].Pieces[1]

HitsBody(i) == \E j \in AliveOthers(i) \cup {i} : NextHead(i) \in ShiftedBody(j)

\* the cells covered by snakes that were dead in the input of the last call
FrozenCells ==
    UNION {Range(In.Snakes[j].Pieces) : j \in {k \in Slots : ~AliveIn(k)}}

\* C33: a snake alive in the input of Next that does not leave the board,
\* does not go to the cell another snake alive in the input goes to, does
\* not swap heads with one and does not run into the shifted body of one
\* (or of itself) is alive in the result, whatever cells the snakes dead in
\* the input cover: no collision is computed against a dead snake
C33_DeadSnakesDoNotCollide ==
    NextReturned =>
        \A i \in Slots :
            (AliveIn(i) /\ ~HitsWall(i) /\ ~HitsHead(i) /\ ~SwapsHeads(i) /\ ~HitsBody(i))
                => AliveOut(i)

\* Next has returned for a tick in which a snake went onto a cell covered
\* by a snake that was dead before the tick, and is alive in the result
C33_Witness ==
    /\ NextReturned
    /\ \E i \in Slots : /\ AliveIn(i)
                        /\ NextHead(i) \in FrozenCells
                        /\ AliveOut(i)

----------------------------------------------------------------------------
(* C34 *)

\* is the cell l free of every piece of every alive snake of the list
FreeOfLiving(m, snakes, l) ==
    \A i \in 1..Len(snakes) : m.snakes[snakes[i]].Alive => ~IsAt(m, snakes[i], l)

RECURSIVE FirstFreeOfLiving(_, _, _, _, _, _)
\* the first cell, in the order GenerateAppleLocation draws them from the
\* generator state s, that is free of the alive snakes
FirstFreeOfLiving(m, width, height, snakes, s, fuel) ==
    IF fuel = 0 THEN ZeroLocation
    ELSE LET dx == RngIntn(s, width)
             dy == RngIntn(dx.s, height)
         IN IF FreeOfLiving(m, snakes, Loc(dx.v, dy.v)) THEN Loc(dx.v, dy.v)
            ELSE FirstFreeOfLiving(m, width, height, snakes, dy.s, fuel - 1)

\* the last call was a Next that returned after a snake reached the apple,
\* so that GenerateAppleLocation was called on the snakes of the result
AppleRelocated == NextReturned /\ \E i \in Slots : AliveIn(i) /\ NextHead(i) = In.Apple

\* the cell the search yields when only the alive snakes count
FirstDrawnFreeOfLiving ==
    FirstFreeOfLiving(mem, Out.Width, Out.Height, mem.states[call.out].Snakes,
                      RngSeed(Checksum(mem, mem.states[call.out].Snakes)), RngMod)

\* the cells covered by snakes that are dead in the result of the last call
DeadCellsOut ==
    UNION {Range(Out.Snakes[j].Pieces) : j \in {k \in Slots : ~AliveOut(k)}}

\* C34: when Next relocates the apple, the new apple cell is the first cell
\* drawn that no alive snake covers; a cell covered only by dead snakes is
\* accepted
C34_FirstDrawnFreeOfLiving ==
    AppleRelocated => Out.Apple = FirstDrawnFreeOfLiving

\* what the search does: the new apple cell is free of every snake, dead
\* ones included, and every cell drawn before it is covered by some snake
C34_FreeOfAllSnakes ==
    AppleRelocated => /\ Out.Apple \notin DeadCellsOut
                      /\ CellOk(mem, mem.states[call.out].Snakes, Out.Apple)

\* the apple was relocated in a tick after which the first cell drawn that
\* is free of the alive snakes is covered by a dead one
C34_Witness ==
    /\ AppleRelocated
    /\ FirstDrawnFreeOfLiving \in DeadCellsOut

\* the last call was a Next whose search for a new apple cell never ends
SearchHangs == call.op = "Next" /\ call.outcome = "hang"

\* the arena the last call was building when it did not return
Unfinished == StateVal(mem, Len(mem.states))

\* a search that never ends has no cell of the board free of the alive
\* snakes to end at
C34_SearchEndsOnCellFreeOfLiving ==
    SearchHangs =>
        \A l \in Board(Unfinished.Width, Unfinished.Height) :
            \E i \in 1..Len(Unfinished.Snakes) : AlivePieceAt(Unfinished, i, l)

\* NewState({3, 1, 2, 2}).Next([West, East]): slot 0 dies leaving the board
\* with its body on (0,0), slot 1 eats the apple on (2,0), and no cell is
\* free of both snakes
C34_HangingCall ==
    /\ SearchHangs
    /\ call.cfg = [Width |-> 3, Height |-> 1, SnakeCount |-> 2, InitialSnakeLength |-> 2]
    /\ call.dirs = <<DirectionWest, DirectionEast>>
    /\ Len(snap) = 1

----------------------------------------------------------------------------
(* C35 *)

\* Run takes and releases clientsMu within one step, so that between two
\* steps the mutex is held, if at all, by a handler inside AddClient or
\* RemoveClient
HeldByHandler == srv.clientsMu

\* this step is a step of Run
RunSteps == run' # run

\* this step is a step of Run that goes through lines 143-146: s.clients is
\* read for the preparation broadcast and clientsMu is unlocked
RunPrepares == run.pc # "preRoundWait" /\ run'.pc = "preRoundWait"

\* C35: no step of Run unlocks clientsMu while the mutex is not locked, no
\* step of Run releases clientsMu while a handler holds it, and Run reads
\* s.clients for the preparation broadcast only in a step in which it has
\* locked clientsMu at line 121
C35_RunUnlocksOnlyItsOwnLock ==
    [][RunSteps => /\ srv'.crashed # "unlock of unlocked mutex"
                   /\ (HeldByHandler => srv'.clientsMu)
                   /\ (RunPrepares => run.pc = "top")]_vars

\* Run has gone from the select of line 133 to line 143 on `break`, and a
\* handler is inside AddClient or RemoveClient with clientsMu locked
C35_Witness ==
    /\ run.pc = "afterWaiting"
    /\ HeldByHandler
    /\ ServerUp

\* the process has ended on an unlock of clientsMu while it was not locked
C35_WitnessFatal == srv.crashed = "unlock of unlocked mutex"

\* a handler is inside AddClient or RemoveClient although clientsMu is not
\* locked: Run has released the mutex the handler had taken
C35_WitnessReleased ==
    /\ ~srv.clientsMu
    /\ \E t \in ClientTasks : tasks[t].pc \in {"addLocked", "removeLocked"}

----------------------------------------------------------------------------
(* Run and two handlers under fair scheduling: no call of Stop, every timer
   fires, Run goes on whenever it can, and so does a handler that is inside
   AddClient or RemoveClient *)

\* the steps of Run between rounds when Stop is never called
LiveRun ==
    \/ RunLoopTop
    \/ RunWaitingUpdated
    \/ RunPreRoundTimer
    \/ RunPostRoundWake

LiveNext ==
    \/ LiveRun
    \/ RunAfterGrace
    \/ RunTick
    \/ RunNotCompleted
    \/ RunRoundOver
    \/ TimerFires
    \/ \E t \in StopPlayers : PlayerStep(t)

\* Run is at the Lock of line 154 and the mutex is free: RunAfterGrace is
\* enabled in exactly these states, and leaves them
GraceOver == ServerUp /\ run.pc = "afterGrace" /\ ~srv.clientsMu

\* weak fairness of the steps of Run up to the start of a round (that of
\* RunAfterGrace is written with the states in which it is enabled), of the
\* timers, and of the handlers holding clientsMu.  Nothing is assumed about
\* the ticks of a round or about the handlers elsewhere
LiveSpec ==
    /\ Init
    /\ [][LiveNext]_vars
    /\ WF_vars(LiveRun)
    /\ []<>(~GraceOver)
    /\ WF_vars(TimerFires)
    /\ \A t \in StopPlayers : WF_vars(AddClientCall(t) \/ RemoveClientCall(t))

----------------------------------------------------------------------------
(* C36 *)

\* the registry holds at least the minimum number of clients
Enough == Len(srv.clients) >= srv.config.MinimumClients

----------------------------------------------------------------------------
(* The server made with any ServerConfig.MinimumClients, Run and two
   handlers *)

\* bound on the configured minimum number of clients
MaxMinimumClients == 2

\* NewServer(ServerConfig{MinimumClients: k}), which takes any k
ConfigInit ==
    /\ mem = EmptyMem
    /\ cur = 0
    /\ call = NoCall
    /\ snap = <<>>
    /\ other = [mem |-> EmptyMem, cur |-> 0, call |-> NoCall, apples |-> NoApples]
    /\ \E k \in 0..MaxMinimumClients : srv = NewServer([MinimumClients |-> k], FALSE)
    /\ run = RunStart
    /\ tasks = NoTasks
    /\ bot = NewWebSocketBot

ConfigSpec == ConfigInit /\ [][LiveNext]_vars

----------------------------------------------------------------------------
(* C37 *)

\* the roster of the round in progress has a size NewState accepts
RosterAccepted ==
    /\ Len(run.roundClients) >= 2
    /\ Len(run.roundClients) <= size

\* the directions Run would read for the next tick are one valid direction
\* for each snake of the arena
DirectionsAccepted ==
    /\ Len(Directions(tasks, run.roundClients))
          = Len(run.gmem.states[run.gameState].Snakes)
    /\ \A i \in 1..Len(run.roundClients) :
          Directions(tasks, run.roundClients)[i] \in ValidDirections

\* C37: Run never makes NewState or Next panic: the process does not end on
\* a panic, and in every round the roster has at least 2 and at most size
\* clients and the direction vector has one valid direction per snake
C37_RunKeepsEngineContract ==
    /\ srv.crashed # "panic"
    /\ InRound => RosterAccepted /\ DirectionsAccepted

\* whenever Run has started a round the registry held at least
\* MinimumClients clients, and the directions are valid
C37_RosterOfAtLeastTheMinimum ==
    InRound => /\ Len(run.roundClients) >= srv.config.MinimumClients
               /\ DirectionsAccepted

\* a round is in progress for a server made with MinimumClients below 2
C37_Witness ==
    /\ InRound
    /\ srv.config.MinimumClients < 2
    /\ \E t \in StopPlayers : tasks[t].direction # DirectionNorth

\* the process has ended on the panic of NewState
C37_WitnessPanic == srv.crashed = "panic" /\ run.pc = "afterGrace"

----------------------------------------------------------------------------
(* C38 *)

\* this step is one of the steps of Run in which broadcast is called: Run
\* comes to one of the waits that follow a broadcast, to the test after the
\* broadcast of a tick, or from the start of a round to its first tick
BroadcastMade ==
    /\ run'.pc # run.pc
    /\ \/ run'.pc \in {"waiting", "preRoundWait", "ticked", "postRoundWait"}
       \/ run.pc = "afterGrace" /\ run'.pc = "tick"

\* this step broadcasts a message of that kind; run.did is the kind of the
\* broadcast made before it
Sends(kind) == BroadcastMade /\ run'.did = kind

\* C38: in the sequence of the broadcasts of Run, a RoundState follows
\* nothing but a Preparing (the first of a round) or a RoundState (a tick),
\* so none follows a RoundOver or a Waiting; a RoundState that follows a
\* RoundState is that of one more tick and every tick broadcasts one; a
\* RoundOver follows nothing but the RoundState of a tick; and what follows
\* a RoundOver is a Waiting or a Preparing
C38_BroadcastsFollowTheRound ==
    [][/\ Sends("RoundState") => run.did \in {"Preparing", "RoundState"}
       /\ Sends("RoundState") /\ run.did = "Preparing" => run'.ticks = 0
       /\ Sends("RoundState") /\ run.did = "RoundState" => run'.ticks = run.ticks + 1
       /\ run'.ticks > run.ticks => Sends("RoundState")
       /\ Sends("RoundOver") => run.did = "RoundState" /\ run.pc = "ticked"
       /\ BroadcastMade /\ run.did = "RoundOver" => run'.did \in {"Waiting", "Preparing"}
      ]_vars

\* a round has been played to its end: the RoundOver has been broadcast
\* after the RoundState of at least one tick
C38_Witness ==
    /\ run.pc = "postRoundWait"
    /\ run.did = "RoundOver"
    /\ run.ticks >= 1

\* with the messages observed: a step of Run that broadcasts a RoundState
\* ends with the message in the inbox of every client of the round and of
\* every viewer whose connection works, so that it has been sent to all of
\* them before the next tick
C38_RoundStateSentBeforeNextTick ==
    [][(srv'.sent = srv.sent + 1 /\ srv'.lastMessage.kind = "RoundState") =>
          \A t \in Range(run'.roundClients) \cup Range(srv'.viewers) :
              ~tasks'[t].broken =>
                  /\ Len(tasks'[t].inbox) = Len(tasks[t].inbox) + 1
                  /\ tasks'[t].inbox[Len(tasks'[t].inbox)] = srv'.lastMessage.id
      ]_vars

----------------------------------------------------------------------------
(* C39 *)

\* this step is the rest of a call of AddClient that appends the client of
\* handler t, and so sends it the message of lines 228-234
Joins(t) ==
    /\ tasks[t].pc = "addLocked"
    /\ tasks'[t].pc = "running"

\* a Waiting message m sent while the registry is clients, to the clients
\* in to: it tells the size of the registry and the configured minimum, the
\* size is below the minimum, and it goes to clients of the registry
TellsTheRegistry(m, clients, to) ==
    /\ m.kind = "Waiting"
    /\ m.CurrentPlayers = Len(clients)
    /\ m.RequiredPlayers = srv.config.MinimumClients
    /\ m.CurrentPlayers < m.RequiredPlayers
    /\ to \subseteq Range(clients)

\* the Waiting messages broadcast by Run tell the registry as it is when
\* they are sent
RunTellsTheRegistry ==
    [][Sends("Waiting") =>
          TellsTheRegistry(srv'.lastMessage, srv.clients, Range(run'.to))]_vars

\* the Waiting message AddClient sends tells the registry as it is when the
\* message is sent, be it counted without the new client or with it
AddClientTellsTheRegistry ==
    [][\A t \in ClientTasks : Joins(t) =>
          \/ TellsTheRegistry(JoinMessage(srv), srv.clients, {})
          \/ TellsTheRegistry(JoinMessage(srv), srv'.clients, {t})]_vars

\* C39: every Waiting message a client is sent, by the broadcast of Run or
\* by AddClient, carries the size the registry has when it is sent and the
\* configured minimum, the former below the latter, and goes to clients of
\* the registry only
C39_WaitingTellsTheRegistry == RunTellsTheRegistry /\ AddClientTellsTheRegistry

\* the same for the Waiting messages that Run broadcasts
C39_WaitingBroadcastTellsTheRegistry == RunTellsTheRegistry

\* Run has broadcast a Waiting message to the one client of the registry
C39_Witness ==
    /\ run.pc = "waiting"
    /\ run.did = "Waiting"
    /\ Len(run.to) = 1
    /\ srv.lastMessage.kind = "Waiting"

\* a third client has been appended to the registry by AddClient
C39_WitnessThirdJoins ==
    /\ Len(srv.clients) = 3
    /\ \A t \in ClientTasks : tasks[t].pc = "running"

----------------------------------------------------------------------------
(* Rounds played to their end by connections that steer between rounds *)

\* bound on the ticks of one round that is played to its end
MaxStraightTicks == 51

\* the directions a connection may send
StraightChoices == {DirectionNorth, DirectionEast, DirectionSouth, DirectionWest}

\* WebSocketClient.Run: a direction message is read and stored while no
\* round is being played
SteerAhead(t) ==
    /\ ServerUp
    /\ ~InRound
    /\ tasks[t].pc = "running"
    /\ \E d \in StraightChoices \ {tasks[t].direction} :
         tasks' = [tasks EXCEPT ![t].direction = d]
    /\ UNCHANGED <<bot, mem, cur, call, snap, other, srv, run>>

\* lines 187-196: <-ticker.C, the directions, Next, the broadcast, in a
\* round of any length
RunStraightTick ==
    /\ ServerUp
    /\ run.pc = "tick"
    /\ run.ticks < MaxStraightTicks
    /\ \E s \in {Tick(srv, tasks, run)} :
         srv' = s.srv /\ tasks' = s.tasks /\ run' = s.run
    /\ UNCHANGED <<bot, mem, cur, call, snap, other>>

\* Run and the handlers of players that stay and steer between the rounds
\* only
StraightNext ==
    \/ LiveRun
    \/ RunAfterGrace
    \/ RunStraightTick
    \/ RunNotCompleted
    \/ RunRoundOver
    \/ TimerFires
    \/ \E t \in ClientTasks :
         \/ ConnectPlayer(t)
         \/ AddClientLock(t)
         \/ AddClientCall(t)
         \/ SteerAhead(t)

StraightSpec == Init /\ [][StraightNext]_vars

----------------------------------------------------------------------------
(* C40 *)

\* max(width, height) of the arena of a round
LongestSide == Max(RoundConfig(0).Width, RoundConfig(0).Height)

\* every client of the round has the default direction
AllNorth == \A i \in 1..Len(run.roundClients) :
                tasks[run.roundClients[i]].direction = DirectionNorth

\* this step is a tick after which some snakes, but not all, are dead
SomeDieAlone ==
    /\ run.pc = "tick"
    /\ run'.pc = "ticked"
    /\ \E i, j \in 1..Len(run'.roundClients) :
         /\ ~run'.gmem.snakes[run'.gmem.states[run'.gameState].Snakes[i]].Alive
         /\ run'.gmem.snakes[run'.gmem.states[run'.gameState].Snakes[j]].Alive

\* a round whose directions do not change goes on to another tick only
\* after fewer ticks than the longest side of the arena, and Run is not
\* ended by it
OverWithinLongestSide ==
    /\ srv.crashed = "no"
    /\ run.pc = "tick" => run.ticks < LongestSide

\* C40: when no client of the round changes its direction from the start of
\* the round on, the round is over after max(width, height) ticks at most;
\* when all the directions are North, all snakes die in the same tick and
\* the RoundOver message has no winner
C40_StraightRoundsEnd ==
    /\ [](OverWithinLongestSide)
    /\ [][AllNorth => ~SomeDieAlone]_vars
    /\ [][AllNorth /\ Sends("RoundOver") => srv'.lastMessage.Winner = <<>>]_vars

\* a round with all directions North is over: no snake is alive
C40_Witness ==
    /\ run.pc = "postRoundWait"
    /\ AllNorth
    /\ AliveSlotsOfRound = {}
    /\ srv.lastMessage.kind = "RoundOver"
    /\ srv.lastMessage.Winner = <<>>

\* a round with other directions is over and has a winner
C40_WitnessWinner ==
    /\ run.pc = "postRoundWait"
    /\ ~AllNorth
    /\ run.ticks > 13
    /\ srv.lastMessage.kind = "RoundOver"
    /\ srv.lastMessage.Winner # <<>>

====
